---- MODULE Spec2Model ----
(***************************************************************************)
(* Model of the deferred-scheme payment middleware of the paylink server   *)
(* (createDeferredPaymentMiddleware), its in-memory voucher store, and     *)
(* the EIP-712 voucher verification it relies on.                          *)
(*                                                                         *)
(* One request handler runs per slot of Req.  A handler is cut into the    *)
(* synchronous runs that JavaScript executes without interruption: the     *)
(* variable `running` holds the slot whose synchronous run is in progress *)
(* (0 when the event loop is free), and a handler gives the loop back only *)
(* at the awaits of the source.                                            *)
(***************************************************************************)
EXTENDS Integers, Sequences, FiniteSets, TLC

\* ------------------------------------------------------------------ bounds
MaxNonce == 2
MaxClock == 21
ExpiryFar == 200
MaxReq == 2
LifeGap == 5
MaxLifeClock == 25

\* ------------------------------------------------------- program constants
ReuseWindowLiteral == 20
FutureSkew == 60
VoucherTimeWindow == 60
CsiDefaultSkew == 60
ChainBaseSepolia == 84532
ChainBase == 8453
PlayerStep == 10000
PlayerExpiry == 3600

Req == 1..MaxReq
Ids == {"v1"}
Buyers == {"b1", "b2"}
TickSteps == {ReuseWindowLiteral, ReuseWindowLiteral + 1}

\* ---------------------------------------------------------------- addresses
\* An address is an account (who) in some letter case (cs).
Addr(w, c) == [who |-> w, cs |-> c]
ToLowerCase(a) == Addr(a.who, "lower")
GetAddress(a) == Addr(a.who, "checksum")

\* A field the JSON of the header does not have.
Undefined == Addr("undefined", "undefined")
MerchantAddress == Addr("merchant", "checksum")
AssetAddress == Addr("asset", "checksum")

\* ------------------------------------------------------- decimal strings
\* A string is the sequence of its characters.
DigitTable ==
  [c \in {"0", "1", "2", "3", "4", "5", "6", "7", "8", "9"} |->
     CASE c = "0" -> 0 [] c = "1" -> 1 [] c = "2" -> 2 [] c = "3" -> 3 [] c = "4" -> 4
       [] c = "5" -> 5 [] c = "6" -> 6 [] c = "7" -> 7 [] c = "8" -> 8 [] c = "9" -> 9]
IsDigit(c) == c \in DOMAIN DigitTable
DigitVal(c) == DigitTable[c]

\* BigInt(s) for a decimal string; -1 stands for the SyntaxError it throws.
RECURSIVE BigIntAcc(_, _)
BigIntAcc(s, acc) ==
  IF s = <<>> THEN acc
  ELSE IF ~IsDigit(Head(s)) THEN -1
  ELSE BigIntAcc(Tail(s), acc * 10 + DigitVal(Head(s)))
BigInt(s) == BigIntAcc(s, 0)

StepAmount == <<"1", "0", "0", "0", "0">>
\* part_001 127-131: the atomic amount of the route's price, "0.01" USDC.
MaxAmountRequired == <<"1", "0", "0", "0", "0">>

\* ------------------------------------------------------------------ vouchers
Voucher(id, seller, buyer, asset, nonce, value, ts, exp, chain) ==
  [id |-> id, seller |-> seller, buyer |-> buyer, asset |-> asset,
   nonce |-> nonce, valueAggregate |-> value, timestamp |-> ts,
   expiry |-> exp, chainId |-> chain]

\* The EIP-712 message verifyVoucherSignature and signVoucher hash: the domain
\* (bound to the chain id) and the voucher with its addresses checksummed and
\* its numbers as BigInt.
TypedMessage(v) ==
  [domain |-> v.chainId, id |-> v.id,
   seller |-> GetAddress(v.seller), buyer |-> GetAddress(v.buyer),
   asset |-> GetAddress(v.asset), nonce |-> v.nonce,
   valueAggregate |-> BigInt(v.valueAggregate), timestamp |-> v.timestamp,
   expiry |-> v.expiry, chainId |-> v.chainId]

\* A signature is known by the account that produced it and the message it
\* was produced over (what ECDSA recovery yields).
SignVoucher(w, v) == [signer |-> w, msg |-> TypedMessage(v)]

\* A faulty verifier: it checks the message but not who signed it.
VerifyAnySigner(voucher, signature) ==
  /\ BigInt(voucher.valueAggregate) >= 0
  /\ signature.msg = TypedMessage(voucher)

VerifyVoucherSignature(voucher, signature) ==
  /\ BigInt(voucher.valueAggregate) >= 0
  /\ signature.signer = GetAddress(voucher.buyer).who
  /\ signature.msg = TypedMessage(voucher)

DecodePayment(h) == h.kind = "deferred"

\* ------------------------------------------------- URLs and receipt scopes
\* A string is a sequence of one-character strings.
BaseUrl == <<"h", "t", "t", "p", ":", "/", "/", "h", ".", "i", "o">>
StreamPrefix == <<"/", "s", "t", "r", "e", "a", "m", "/">>

IsPrefix(p, s) == Len(p) <= Len(s) /\ SubSeq(s, 1, Len(p)) = p
Drop(s, n) == SubSeq(s, n + 1, Len(s))

\* [^\/\.]+ : the longest leading run of characters other than "/" and ".".
RECURSIVE IdRun(_)
IdRun(s) ==
  IF s = <<>> \/ Head(s) \in {"/", "."} THEN <<>>
  ELSE <<Head(s)>> \o IdRun(Tail(s))

\* req.path.match(/\/stream\/([^\/\.]+)/)?.[1]: the run after the first
\* "/stream/" that is followed by one; <<>> stands for undefined.
RECURSIVE StreamIdOf(_)
StreamIdOf(path) ==
  IF path = <<>> THEN <<>>
  ELSE IF IsPrefix(StreamPrefix, path) /\ IdRun(Drop(path, Len(StreamPrefix))) # <<>>
       THEN IdRun(Drop(path, Len(StreamPrefix)))
       ELSE StreamIdOf(Tail(path))

\* A faulty scope: the request's own URL, without the wildcard.
ScopeOfPathOnly(path) == BaseUrl \o path

\* The scope pattern minted for a paid request on path.
ScopePattern(path) ==
  LET streamId == StreamIdOf(path)
  IN IF streamId # <<>> THEN BaseUrl \o StreamPrefix \o streamId \o <<"*">>
     ELSE BaseUrl \o path

\* new RegExp("^" + p.replace(/\*/g, ".*") + "$").test(url): "*" is any run
\* of characters; "." is left unescaped and is any one character; letters,
\* digits, ":" and "/" stand for themselves.
RECURSIVE RegexTest(_, _)
RegexTest(p, url) ==
  IF p = <<>> THEN url = <<>>
  ELSE IF Head(p) = "*"
       THEN RegexTest(Tail(p), url) \/ (url # <<>> /\ RegexTest(p, Tail(url)))
       ELSE /\ url # <<>>
            /\ Head(p) = "." \/ Head(p) = Head(url)
            /\ RegexTest(Tail(p), Tail(url))

\* receipt.scope.some(pattern => regex.test(currentUrl))
HasMatchingScope(scope, currentUrl) ==
  \E i \in 1..Len(scope) : RegexTest(scope[i], currentUrl)

\* Stream identifiers and the URLs built on them.
StreamIds == { <<"a", "b", "c">>, <<"x", "y", "z">>, <<"a", "b", "c", "d">>, <<"a", "b">> }
ManifestExts == { <<"m", "3", "u", "8">>, <<"m", "p", "d">>, <<"m", "p", "4">> }
SegmentTails == { <<"s", "e", "g", "0", ".", "t", "s">>,
                  <<"v", "1", "/", "s", "e", "g", "0", ".", "t", "s">> }
ManifestPath(id, ext) == StreamPrefix \o id \o <<".">> \o ext
SegmentPath(id, tail) == StreamPrefix \o id \o <<"/">> \o tail

\* ------------------------------------------------------ receipts (JWT)
NoToken == [kind |-> "none", scope |-> <<>>]
\* A faulty verification that ignores the expiry.
JwtVerifyIgnoringExpiry(token) == token.kind \in {"valid", "expired"}
\* jwt.verify(token, config.jwtSecret): signature and exp are checked.
JwtVerify(token) == token.kind = "valid"
\* Lines 515-552: a Bearer token that verifies and whose scope matches
\* config.baseUrl + req.path admits the request.
TokenAdmits(q) ==
  /\ q.token.kind # "none"
  /\ JwtVerify(q.token)
  /\ HasMatchingScope(q.token.scope, BaseUrl \o q.path)

NoRequest == [token |-> NoToken, payment |-> "none", browser |-> FALSE, path |-> <<>>]

\* ------------------------------------------- the response object (Express)
\* statusCode is the field the code reads; sentStatus and body are what has
\* gone to the client; endArgs is what the interception captured ("null":
\* nothing, "empty": res.end() without a chunk); ends counts the calls of the
\* real res.end.
FreshResponse ==
  [statusCode |-> 200, headersSent |-> FALSE, finished |-> FALSE,
   sentStatus |-> 0, body |-> "none",
   payResp |-> FALSE, token |-> FALSE,
   hooked |-> FALSE, endArgs |-> "null", ends |-> 0]

ResStatus(r, s) == [r EXCEPT !.statusCode = s]
FlushHeaders(r) ==
  IF r.headersSent THEN r
  ELSE [r EXCEPT !.headersSent = TRUE, !.sentStatus = r.statusCode]
\* res.write(chunk): not intercepted; the first write sends the headers.
ResWrite(r, chunk) ==
  IF r.finished THEN r ELSE [FlushHeaders(r) EXCEPT !.body = chunk]
\* The real res.end.
OriginalEnd(r, chunk) ==
  IF r.finished THEN [r EXCEPT !.ends = @ + 1]
  ELSE [FlushHeaders(r) EXCEPT !.finished = TRUE, !.ends = @ + 1,
                               !.body = IF chunk = "empty" THEN @ ELSE chunk]
\* res.end as the caller sees it: captured while intercepted.
ResEnd(r, chunk) ==
  IF r.hooked THEN [r EXCEPT !.endArgs = chunk] ELSE OriginalEnd(r, chunk)
\* res.setHeader throws once the headers are sent.
SetHeaderThrows(r) == r.headersSent
\* res.status(s).json(body) / res.status(s).send(body): the status is set,
\* then the content headers (a throw leaves only the status), then res.end.
ResSend(r, s, chunk) ==
  IF SetHeaderThrows(r) THEN ResStatus(r, s) ELSE ResEnd(ResStatus(r, s), chunk)

\* A faulty restore that forgets the captured end.
RestoreEndNoReplay(r) == [r EXCEPT !.hooked = FALSE]

\* Lines 805-810 (and 745-748): the interception is removed and a captured
\* end is replayed.
RestoreEnd(r) ==
  LET u == [r EXCEPT !.hooked = FALSE]
  IN IF r.endArgs # "null" THEN OriginalEnd(u, r.endArgs) ELSE u

NoDownstream == [pc |-> "none", status |-> 0]
NoCalls == [verify |-> 0, settle |-> 0, next |-> 0, sign |-> 0,
            verifyResult |-> "none", settleResult |-> "none"]
NoScopeCheck == [id |-> <<>>, path |-> <<>>, pattern |-> <<>>, url |-> <<>>, result |-> "none"]

\* The deferred scheme: the clock, the voucher store, the event loop's
\* holder, and per request slot the handler's position and locals.
\* invoked counts the slot's calls of next().
VARIABLES clock, voucherStore, running, pc, hdr, now, prev, res, invoked
\* The route table the middlewares were created with, and the decisions the
\* deferred middleware writes to the console (kept while journal.on).
VARIABLES config, journal
\* The exact scheme: the request, the middleware's position, the response
\* object, the route handler, and the calls made for the request.
VARIABLES ereq, epc, eres, down, ecalls
\* A receipt scope and the URL tested against it.
VARIABLES sc

\* The proxy's wrapped-stream map and the answer to the last POST /wrap.
VARIABLES wrapped, wres
\* A signed identifier handed to recoverCSISigner and what the call gave.
VARIABLES csi
\* The video player: signingInProgressRef, voucherStateRef, the vouchers
\* handed to the wallet to sign, and whether hls.js is loading.
VARIABLES signingInProgress, voucherState, signing, loading
\* Whether the player's voucher was signed from a hint and is still untried.
VARIABLES followed

dvars == <<clock, voucherStore, running, pc, hdr, now, prev, res, invoked, config, journal>>
xvars == <<ereq, epc, eres, down, ecalls, sc>>
wvars == <<wrapped, wres>>
cvars == <<csi>>
pvars == <<signingInProgress, voucherState, signing, loading, followed>>
ovars == <<wvars, cvars, pvars>>
vars == <<dvars, xvars, ovars>>

\* --------------------------------------------------------------- the store
EmptyStore == [i \in {} |-> 0]
Has(id) == id \in DOMAIN voucherStore
\* voucherStore.get(id): <<state>> when present, <<>> when undefined.
StoreGet(id) == IF Has(id) THEN <<voucherStore[id]>> ELSE <<>>
\* A faulty write: it replaces the whole map by the one entry.
StoreSetAlone(id, st) == [i \in {id} |-> st]
StoreSet(id, st) ==
  [i \in (DOMAIN voucherStore) \cup {id} |-> IF i = id THEN st ELSE voucherStore[i]]

\* ------------------------------------------------------ the field checks
ChainIdOf(network) == IF network = "base-sepolia" THEN ChainBaseSepolia ELSE ChainBase
Network == "base-sepolia"

\* Lines 227 and 238: toLowerCase is called on voucher.seller and
\* voucher.asset as decoded; on a missing field it throws a TypeError.
SellerThrows(voucher) == voucher.seller = Undefined
AssetThrows(voucher) == voucher.asset = Undefined

SellerMismatch(voucher) == ToLowerCase(voucher.seller) # ToLowerCase(MerchantAddress)
AssetMismatch(voucher) == ToLowerCase(voucher.asset) # ToLowerCase(AssetAddress)
ChainIdMismatch(voucher) == voucher.chainId # ChainIdOf(Network)

\* Expired is line 262; ExpiredStrict is the faulty variant with >=.
ExpiredStrict(voucher, nw) == nw >= voucher.expiry
Expired(voucher, nw) == nw > voucher.expiry

\* A faulty skew check that also rejects the boundary.
TimestampInvalidAtBound(voucher, nw) == voucher.timestamp >= nw + FutureSkew
TimestampInvalid(voucher, nw) == voucher.timestamp > nw + FutureSkew

\* A faulty order of step 5: the asset is compared before the seller.
FieldErrorAssetFirst(voucher, nw) ==
  IF AssetThrows(voucher) THEN "TypeError"
  ELSE IF AssetMismatch(voucher) THEN "Asset mismatch"
  ELSE IF SellerThrows(voucher) THEN "TypeError"
  ELSE IF SellerMismatch(voucher) THEN "Seller mismatch"
  ELSE IF ChainIdMismatch(voucher) THEN "ChainId mismatch"
  ELSE IF Expired(voucher, nw) THEN "Voucher expired"
  ELSE IF TimestampInvalid(voucher, nw) THEN "Voucher timestamp invalid"
  ELSE ""

\* The error of the first failing check of step 5, "" when all pass;
\* "TypeError" for the exception of a toLowerCase on a missing field.
FieldError(voucher, nw) ==
  IF SellerThrows(voucher) THEN "TypeError"
  ELSE IF SellerMismatch(voucher) THEN "Seller mismatch"
  ELSE IF AssetThrows(voucher) THEN "TypeError"
  ELSE IF AssetMismatch(voucher) THEN "Asset mismatch"
  ELSE IF ChainIdMismatch(voucher) THEN "ChainId mismatch"
  ELSE IF Expired(voucher, nw) THEN "Voucher expired"
  ELSE IF TimestampInvalid(voucher, nw) THEN "Voucher timestamp invalid"
  ELSE ""

\* ------------------------------------------- the comparison with the store
\* Faulty variants (FirstNonceAny, NonceAnyAdvance, ValueNotIncreased) stand
\* before the checks of the source they weaken.
FirstNonceAny(voucher) == TRUE
FirstNonceOk(voucher) == voucher.nonce = 0

\* A faulty reuse check: it measures the age from the time of the request.
ReuseExpiredSinceNow(nw, p) == nw - nw > ReuseWindowLiteral
ReuseExpired(nw, p) == nw - p.timestamp > ReuseWindowLiteral

NonceAnyAdvance(voucher, p) == voucher.nonce < p.nonce
NonceMismatch(voucher, p) == voucher.nonce # p.nonce + 1

ValueNotIncreased(voucher, p) ==
  BigInt(voucher.valueAggregate) <= BigInt(p.valueAggregate)
ValueMismatch(voucher, p) ==
  BigInt(voucher.valueAggregate) # BigInt(p.valueAggregate) + BigInt(StepAmount)

TimestampNotIncreased(voucher, p) == voucher.timestamp <= p.timestamp

ImmutableChanged(voucher, p) ==
  \/ voucher.id # p.id
  \/ ToLowerCase(voucher.seller) # ToLowerCase(p.seller)
  \/ ToLowerCase(voucher.buyer) # ToLowerCase(p.buyer)
  \/ ToLowerCase(voucher.asset) # ToLowerCase(p.asset)
  \/ voucher.chainId # p.chainId

\* Step 7 of the middleware: the error of the comparison of the voucher with
\* what voucherStore.get returned (pv: <<state>> or <<>>), "" when accepted.
StateError(voucher, pv, nw) ==
  IF pv # <<>> THEN
    LET p == pv[1].voucher IN
    IF voucher.nonce = p.nonce THEN
      IF ReuseExpired(nw, p) THEN "Voucher timestamp expired, please aggregate"
      ELSE ""
    ELSE IF NonceMismatch(voucher, p) THEN "Nonce mismatch"
    ELSE IF ValueMismatch(voucher, p) THEN "ValueAggregate mismatch"
    ELSE IF TimestampNotIncreased(voucher, p) THEN "Timestamp must increase"
    ELSE IF ImmutableChanged(voucher, p) THEN "Immutable fields changed during aggregation"
    ELSE ""
  ELSE
    IF ~FirstNonceOk(voucher) THEN "First voucher must have nonce=0"
    ELSE ""

\* How an accepted voucher relates to what was read from the store.
Branch(voucher, pv) ==
  IF pv = <<>> THEN "new"
  ELSE IF voucher.nonce = pv[1].voucher.nonce THEN "reuse"
  ELSE "aggregation"

\* ------------------------------------------------------------ scheduling
\* The handler positions at which the handler has given the event loop back:
\* the awaits of the source, and the ends of the handler.  voucherStore.get is
\* a synchronous Map lookup, so "validate" and "store" are not among them
\* (YieldsAsyncLookup is the faulty variant with an awaited lookup).
YieldsAsyncLookup(p) ==
  p \in {"idle", "await_verify", "validate", "await_store", "downstream", "done"}
Yields(p) == p \in {"idle", "await_verify", "await_store", "downstream", "done"}

CanRun(r) == running \in {0, r}
\* A faulty scheduler: every step ends the handler's run.
HolderReleases(r, p) == 0
Holder(r, p) == IF Yields(p) THEN 0 ELSE r

\* ------------------------------------------------------------- responses
NoExtra == [type |-> "none"]
NoResponse == [status |-> 200, error |-> "", extra |-> NoExtra, payResp |-> FALSE, sent |-> FALSE]
Rejection(err, extra) ==
  [status |-> 402, error |-> err, extra |-> extra, payResp |-> FALSE, sent |-> TRUE]
\* An exception leaves the async middleware as a rejected promise: Express 4
\* drops it and the request stays unanswered, Express 5 answers 500.
UncaughtOutcomes == {"unanswered", "500"}
Thrown == {"TypeError", "PriceError"}
Uncaught(err, o) ==
  [status |-> IF o = "500" THEN 500 ELSE 200, error |-> err, extra |-> NoExtra,
   payResp |-> FALSE, sent |-> (o = "500")]
NoHeader == [kind |-> "none"]

\* getPaymentRequirementsExtra: the request's own voucher is echoed as the
\* aggregation basis when the header decodes, a fresh id is offered otherwise.
GetPaymentRequirementsExtra(h) ==
  IF DecodePayment(h)
  THEN [type |-> "aggregation", voucher |-> h.voucher, signature |-> h.signature]
  ELSE [type |-> "new"]

\* A faulty aggregation hint: the submitted voucher instead of the stored one.
AggregationExtraOfRequest(h, pv) == GetPaymentRequirementsExtra(h)
\* Lines 310-318: the hint of the reuse-window rejection is the stored voucher
\* and signature (pv: what voucherStore.get returned).
AggregationExtra(h, pv) ==
  [type |-> "aggregation", voucher |-> pv[1].voucher, signature |-> pv[1].signature]

\* console.log of a decision: the voucher, the server time, the outcome
\* ("accepted" or the error) and the nonce the store holds afterwards (-1:
\* no entry).
JournalOff == [on |-> FALSE, entries |-> <<>>]
JournalOn == [on |-> TRUE, entries |-> <<>>]
Entry(h, at, result, store) ==
  [voucher |-> h.voucher, signature |-> h.signature, at |-> at, result |-> result,
   nonce |-> IF h.voucher.id \in DOMAIN store THEN store[h.voucher.id].voucher.nonce ELSE -1]
Log(j, e) == IF j.on THEN [j EXCEPT !.entries = Append(@, e)] ELSE j

\* No signed identifier is being validated.
NoCsi == [stage |-> "none"]

\* part_002:7: new Map(); no POST /wrap answered yet.
NoWrapped == [i \in {} |-> 0]
NoWrapAnswer == [status |-> 0, error |-> "", wrappedUrl |-> <<>>, body |-> [kind |-> "none"], id |-> <<>>]

\* The state after start-up, whatever the route table and the console.
Started ==
  /\ clock = 0
  /\ voucherStore = EmptyStore
  /\ running = 0
  /\ pc = [r \in Req |-> "idle"]
  /\ hdr = [r \in Req |-> NoHeader]
  /\ now = [r \in Req |-> 0]
  /\ prev = [r \in Req |-> <<>>]
  /\ res = [r \in Req |-> NoResponse]
  /\ invoked = [r \in Req |-> 0]
  /\ ereq = NoRequest
  /\ epc = "idle"
  /\ eres = FreshResponse
  /\ down = NoDownstream
  /\ ecalls = NoCalls
  /\ sc = NoScopeCheck
  /\ wrapped = NoWrapped
  /\ wres = NoWrapAnswer
  /\ csi = NoCsi
  /\ signingInProgress = FALSE
  /\ voucherState = NoHeader
  /\ signing = <<>>
  /\ loading = TRUE
  /\ followed = FALSE

\* The deployed route table has a price that converts; nothing is journalled.
Init ==
  /\ Started
  /\ config = [priceValid |-> TRUE]
  /\ journal = JournalOff

\* Wall-clock time passes between two synchronous runs.
Tick ==
  /\ running = 0
  /\ \E d \in TickSteps :
       /\ clock + d <= MaxClock
       /\ clock' = clock + d
  /\ UNCHANGED <<voucherStore, running, pc, hdr, now, prev, res>>
  /\ UNCHANGED <<invoked, config, journal, xvars, ovars>>

\* Lines 96-284: the request arrives with X-PAYMENT header h; the header and
\* field checks run, and the handler awaits the signature verification.
Receive(r, h) ==
  /\ pc[r] = "idle"
  /\ CanRun(r)
  /\ hdr' = [hdr EXCEPT ![r] = h]
  /\ LET err == IF ~config.priceValid THEN "PriceError"
                ELSE IF h.kind = "none" THEN "X-PAYMENT header is required"
                ELSE IF ~DecodePayment(h) THEN "Invalid or malformed X-PAYMENT header"
                ELSE FieldError(h.voucher, clock)
         next == IF err = "" THEN "await_verify" ELSE "done"
     IN /\ pc' = [pc EXCEPT ![r] = next]
        /\ journal' = IF config.priceValid /\ DecodePayment(h) /\ err # ""
                      THEN Log(journal, Entry(h, clock, err, voucherStore))
                      ELSE journal
        /\ running' = Holder(r, next)
        /\ now' = [now EXCEPT ![r] = IF config.priceValid /\ DecodePayment(h)
                                         /\ ~SellerThrows(h.voucher) /\ ~AssetThrows(h.voucher)
                                         /\ ~SellerMismatch(h.voucher)
                                         /\ ~AssetMismatch(h.voucher)
                                         /\ ~ChainIdMismatch(h.voucher)
                                      THEN clock ELSE 0]
        /\ \E o \in UncaughtOutcomes :
             res' = [res EXCEPT ![r] = IF err = "" THEN NoResponse
                                       ELSE IF err \in Thrown THEN Uncaught(err, o)
                                       ELSE Rejection(err, GetPaymentRequirementsExtra(h))]
  /\ UNCHANGED <<clock, voucherStore, prev>>
  /\ UNCHANGED <<invoked, config, xvars, ovars>>

\* Lines 284-296: the verification resolves; a valid voucher's prior state is
\* read from the store.
AfterVerify(r) ==
  /\ pc[r] = "await_verify"
  /\ CanRun(r)
  /\ LET valid == VerifyVoucherSignature(hdr[r].voucher, hdr[r].signature)
         next == IF valid THEN "validate" ELSE "done"
     IN /\ pc' = [pc EXCEPT ![r] = next]
        /\ running' = Holder(r, next)
        /\ prev' = [prev EXCEPT ![r] = IF valid THEN StoreGet(hdr[r].voucher.id) ELSE <<>>]
        /\ res' = [res EXCEPT ![r] = IF valid THEN NoResponse
                                     ELSE Rejection("Invalid voucher signature",
                                                    GetPaymentRequirementsExtra(hdr[r]))]
        /\ journal' = IF valid THEN journal
                      ELSE Log(journal, Entry(hdr[r], now[r], "Invalid voucher signature",
                                              voucherStore))
  /\ UNCHANGED <<clock, voucherStore, hdr, now>>
  /\ UNCHANGED <<invoked, config, xvars, ovars>>

\* A faulty Validate: it stores the voucher before comparing it.
ValidateStoreFirst(r) ==
  /\ pc[r] = "validate"
  /\ CanRun(r)
  /\ LET err == StateError(hdr[r].voucher, prev[r], now[r])
         next == IF err = "" THEN "store" ELSE "done"
     IN /\ pc' = [pc EXCEPT ![r] = next]
        /\ running' = Holder(r, next)
        /\ res' = [res EXCEPT ![r] =
                     IF err = "" THEN NoResponse
                     ELSE Rejection(err, GetPaymentRequirementsExtra(hdr[r]))]
  /\ voucherStore' = StoreSet(hdr[r].voucher.id,
                              [voucher |-> hdr[r].voucher,
                               signature |-> hdr[r].signature,
                               lastValidated |-> clock * 1000])
  /\ UNCHANGED <<clock, hdr, now, prev>>
  /\ UNCHANGED <<invoked, config, journal, xvars, ovars>>

\* Lines 297-405: the voucher is compared with the prior state read.
Validate(r) ==
  /\ pc[r] = "validate"
  /\ CanRun(r)
  /\ LET err == StateError(hdr[r].voucher, prev[r], now[r])
         next == IF err = "" THEN "store" ELSE "done"
     IN /\ pc' = [pc EXCEPT ![r] = next]
        /\ running' = Holder(r, next)
        /\ res' = [res EXCEPT ![r] =
                     IF err = "" THEN NoResponse
                     ELSE Rejection(err, IF err = "Voucher timestamp expired, please aggregate"
                                         THEN AggregationExtra(hdr[r], prev[r])
                                         ELSE GetPaymentRequirementsExtra(hdr[r]))]
        /\ journal' = IF err = "" THEN journal
                      ELSE Log(journal, Entry(hdr[r], now[r], err, voucherStore))
  /\ UNCHANGED <<clock, voucherStore, hdr, now, prev>>
  /\ UNCHANGED <<invoked, config, xvars, ovars>>

\* Lines 35-42 and 408: storeVoucher overwrites the identifier's entry.
StoreVoucher(r) ==
  /\ pc[r] = "store"
  /\ CanRun(r)
  /\ voucherStore' = StoreSet(hdr[r].voucher.id,
                              [voucher |-> hdr[r].voucher,
                               signature |-> hdr[r].signature,
                               lastValidated |-> clock * 1000])
  /\ pc' = [pc EXCEPT ![r] = "await_store"]
  /\ running' = Holder(r, "await_store")
  /\ journal' = Log(journal, Entry(hdr[r], now[r], "accepted", voucherStore'))
  /\ UNCHANGED <<clock, hdr, now, prev, res>>
  /\ UNCHANGED <<invoked, config, xvars, ovars>>

\* Lines 410-453: res.end is intercepted and next() runs the route handler up
\* to its first await.  found = FALSE: the stream is unknown and the handler
\* answers 404 at once; found = TRUE: the handler is waiting for the upstream,
\* the status is still 200 and the acknowledgement header is set.
Finish(r, found) ==
  /\ pc[r] = "await_store"
  /\ CanRun(r)
  /\ LET next == IF found THEN "downstream" ELSE "done"
     IN /\ pc' = [pc EXCEPT ![r] = next]
        /\ running' = Holder(r, next)
        /\ res' = [res EXCEPT ![r] =
                     IF found
                     THEN [NoResponse EXCEPT !.payResp = TRUE]
                     ELSE [NoResponse EXCEPT !.status = 404, !.sent = TRUE]]
  /\ UNCHANGED <<clock, voucherStore, hdr, now, prev>>
  /\ invoked' = [invoked EXCEPT ![r] = @ + 1]
  /\ UNCHANGED <<config, journal, xvars, ovars>>

DownstreamStatuses == {200, 404, 500}

\* Lines 1178-1233: the route handler completes with the upstream's status
\* (or 500) and ends the response through the restored res.end.
DownstreamEnd(r, status) ==
  /\ pc[r] = "downstream"
  /\ CanRun(r)
  /\ pc' = [pc EXCEPT ![r] = "done"]
  /\ running' = Holder(r, "done")
  /\ res' = [res EXCEPT ![r] = [@ EXCEPT !.status = status, !.sent = TRUE]]
  /\ UNCHANGED <<clock, voucherStore, hdr, now, prev>>
  /\ UNCHANGED <<invoked, config, journal, xvars, ovars>>

\* The response has been sent; the handler's locals are gone.
Close(r) ==
  /\ pc[r] = "done"
  /\ CanRun(r)
  /\ pc' = [pc EXCEPT ![r] = "idle"]
  /\ hdr' = [hdr EXCEPT ![r] = NoHeader]
  /\ now' = [now EXCEPT ![r] = 0]
  /\ prev' = [prev EXCEPT ![r] = <<>>]
  /\ res' = [res EXCEPT ![r] = NoResponse]
  /\ UNCHANGED <<clock, voucherStore, running>>
  /\ invoked' = [invoked EXCEPT ![r] = 0]
  /\ UNCHANGED <<config, journal, xvars, ovars>>

\* ===================================================== the exact scheme
\* Lines 957-1063: the manifest route handler's run up to its first await.
\* An unknown stream and an extension mismatch answer at once; a known
\* stream leaves the handler waiting for the upstream.
HandlerKinds == {"notfound", "badext", "manifest", "progressive"}
HandlerEntry(r, k) ==
  IF k = "notfound"
  THEN [res |-> ResSend(r, 404, "downstream"), down |-> [pc |-> "ended", status |-> 404]]
  ELSE IF k = "badext"
  THEN [res |-> ResSend(r, 400, "downstream"), down |-> [pc |-> "ended", status |-> 400]]
  ELSE IF k = "manifest"
  THEN [res |-> r, down |-> [pc |-> "fetch_manifest", status |-> 0]]
  ELSE [res |-> r, down |-> [pc |-> "fetch_progressive", status |-> 0]]

\* A faulty entry check that only asks for the header's presence.
EntryErrorPresenceOnly(q) ==
  IF q.payment = "none"
  THEN (IF q.browser THEN "paywall" ELSE "X-PAYMENT header is required")
  ELSE ""

\* Lines 629-700: the 402 of a request that is not admitted before the
\* verifier is asked; "" when the payment decodes and matches.
EntryError(q) ==
  IF q.payment = "none"
  THEN (IF q.browser THEN "paywall" ELSE "X-PAYMENT header is required")
  ELSE IF q.payment = "malformed" THEN "Invalid or malformed payment header"
  ELSE IF q.payment = "nomatch" THEN "Unable to find matching payment requirements"
  ELSE ""

\* Lines 511-703: the request arrives.  A token that admits it hands it to
\* the route handler at once (k: what the handler finds); otherwise the
\* payment header is examined and the verifier is called.
EReceive(q, k) ==
  /\ epc = "idle"
  /\ ereq' = q
  /\ IF TokenAdmits(q)
     THEN LET h == HandlerEntry(eres, k)
          IN /\ eres' = h.res
             /\ down' = h.down
             /\ ecalls' = [ecalls EXCEPT !.next = @ + 1]
             /\ epc' = "returned"
     ELSE IF ~config.priceValid
     THEN /\ \E o \in UncaughtOutcomes :
               eres' = IF o = "500" THEN ResSend(eres, 500, "PriceError") ELSE eres
          /\ epc' = "returned"
          /\ UNCHANGED <<down, ecalls>>
     ELSE IF EntryError(q) # ""
     THEN /\ eres' = ResSend(eres, 402, EntryError(q))
          /\ epc' = "returned"
          /\ UNCHANGED <<down, ecalls>>
     ELSE /\ ecalls' = [ecalls EXCEPT !.verify = @ + 1]
          /\ epc' = "await_verify"
          /\ UNCHANGED <<down, eres>>
  /\ UNCHANGED <<ovars, dvars, sc>>

VerifyOutcomes == {"valid", "invalid", "throws"}

\* Lines 702-757: the verifier answers.  A valid payment intercepts res.end
\* and calls next(); a status of 400 or more right after next() replays the
\* captured end and returns, anything else calls settle.
EVerified(v, k) ==
  /\ epc = "await_verify"
  /\ IF v # "valid"
     THEN /\ eres' = ResSend(eres, 402, IF v = "invalid" THEN "invalidReason" ELSE "verify error")
          /\ ecalls' = [ecalls EXCEPT !.verifyResult = v]
          /\ epc' = "returned"
          /\ UNCHANGED down
     ELSE LET h == HandlerEntry([eres EXCEPT !.hooked = TRUE], k)
              failed == h.res.statusCode >= 400
          IN /\ down' = h.down
             /\ eres' = IF failed THEN RestoreEnd(h.res) ELSE h.res
             /\ ecalls' = [ecalls EXCEPT !.verifyResult = v,
                                         !.next = @ + 1,
                                         !.settle = IF failed THEN @ ELSE @ + 1]
             /\ epc' = IF failed THEN "returned" ELSE "await_settle"
  /\ UNCHANGED <<ovars, dvars, ereq, sc>>

SettleOutcomes == {"success", "failure", "throws"}

\* Lines 753-810: settle answers.  The acknowledgement header is set (a
\* throw when the headers are already sent), a success adds the receipt
\* token, a failure answers 402; the catch answers 402 unless the headers
\* are sent; finally the interception is removed.
ESettled(s) ==
  /\ epc = "await_settle"
  /\ LET acked == s # "throws" /\ ~SetHeaderThrows(eres)
         h == [eres EXCEPT !.payResp = TRUE]
         r1 == IF s = "throws"
               THEN (IF ~eres.headersSent THEN ResSend(eres, 402, "settle error") ELSE eres)
               ELSE IF ~acked THEN eres
               ELSE IF s = "success" THEN [h EXCEPT !.token = TRUE]
               ELSE ResSend(h, 402, "errorReason")
     IN /\ eres' = RestoreEnd(r1)
        /\ ecalls' = [ecalls EXCEPT !.settleResult = s,
                                    !.sign = IF acked /\ s = "success" THEN @ + 1 ELSE @]
  /\ epc' = "returned"
  /\ UNCHANGED <<ovars, dvars, ereq, down, sc>>

\* The upstream's answer: a status, or 0 for a fetch that rejects.
UpstreamOutcomes == {0, 200, 404}

\* Lines 985-1012 and 1063-1112: the handler resumes with the upstream's
\* answer.  A manifest is sent whole; a progressive stream takes over the
\* upstream's status and starts reading.  A setHeader that throws (the
\* response has gone out) ends in the catch, whose own json throws too.
DFetched(u) ==
  /\ down.pc \in {"fetch_manifest", "fetch_progressive"}
  /\ IF u = 0
     THEN /\ eres' = ResSend(eres, 500, "downstream")
          /\ down' = [pc |-> "ended", status |-> 500]
     ELSE IF SetHeaderThrows(eres)
     THEN /\ eres' = ResStatus(eres, 500)
          /\ down' = [pc |-> "ended", status |-> 500]
     ELSE IF down.pc = "fetch_manifest"
     THEN /\ eres' = IF u >= 400 THEN ResSend(eres, u, "downstream")
                     ELSE ResEnd(eres, "downstream")
          /\ down' = [pc |-> "ended", status |-> IF u >= 400 THEN u ELSE eres.statusCode]
     ELSE /\ eres' = ResStatus(eres, u)
          /\ down' = [pc |-> "reading", status |-> u]
  /\ UNCHANGED <<ovars, dvars, ereq, epc, ecalls, sc>>

\* Lines 1086-1103: one reader.read() resolves: a chunk is written, the end
\* of the body (or a read error) ends the response.
DRead(done) ==
  /\ down.pc = "reading"
  /\ IF done
     THEN /\ eres' = ResEnd(eres, "empty")
          /\ down' = [down EXCEPT !.pc = "ended"]
     ELSE /\ eres' = ResWrite(eres, "downstream")
          /\ UNCHANGED down
  /\ UNCHANGED <<ovars, dvars, ereq, epc, ecalls, sc>>

\* The middleware has returned and the handler has ended: the request's
\* objects are gone.
EClose ==
  /\ epc = "returned"
  /\ down.pc \in {"none", "ended"}
  /\ epc' = "idle"
  /\ ereq' = NoRequest
  /\ eres' = FreshResponse
  /\ down' = NoDownstream
  /\ ecalls' = NoCalls
  /\ UNCHANGED <<ovars, dvars, sc>>

\* Requests of the exact scheme.
TokenScopes == { <<ScopePattern(ManifestPath(t, <<"m", "p", "d">>))>> : t \in StreamIds }
Tokens ==
  {NoToken} \cup { [kind |-> k, scope |-> s] : k \in {"malformed", "expired", "valid"},
                                               s \in TokenScopes }
Payments == {"none", "malformed", "nomatch", "ok"}
ExactRequests ==
  { [token |-> t, payment |-> p, browser |-> b, path |-> ManifestPath(i, <<"m", "3", "u", "8">>)] :
      t \in Tokens, p \in Payments, b \in BOOLEAN, i \in StreamIds }

NextExact ==
  \/ epc = "idle" /\ \E q \in ExactRequests, k \in HandlerKinds : EReceive(q, k)
  \/ \E v \in VerifyOutcomes, k \in HandlerKinds : EVerified(v, k)
  \/ \E s \in SettleOutcomes : ESettled(s)
  \/ \E u \in UpstreamOutcomes : DFetched(u)
  \/ \E d \in BOOLEAN : DRead(d)
  \/ EClose

SpecExact == Init /\ [][NextExact]_vars

\* ============================================ scope minting and matching
\* Lines 763-769: the scope is minted for a paid request on stream id.
MintScope(id, ext) ==
  /\ sc.pattern = <<>>
  /\ sc' = [NoScopeCheck EXCEPT !.id = id, !.path = ManifestPath(id, ext),
                               !.pattern = ScopePattern(ManifestPath(id, ext))]
  /\ UNCHANGED <<ovars, dvars, ereq, epc, eres, down, ecalls>>

\* Lines 528-538: a later request's URL is tested against the scope.
TestScope(path) ==
  /\ sc.pattern # <<>>
  /\ sc' = [sc EXCEPT !.url = BaseUrl \o path,
                      !.result = IF HasMatchingScope(<<sc.pattern>>, BaseUrl \o path)
                                 THEN "match" ELSE "no match"]
  /\ UNCHANGED <<ovars, dvars, ereq, epc, eres, down, ecalls>>

ForgetScope ==
  /\ sc.result # "none"
  /\ sc' = NoScopeCheck
  /\ UNCHANGED <<ovars, dvars, ereq, epc, eres, down, ecalls>>

TestPaths ==
  { ManifestPath(i, e) : i \in StreamIds, e \in ManifestExts }
    \cup { SegmentPath(i, t) : i \in StreamIds, t \in SegmentTails }

NextScope ==
  \/ \E i \in StreamIds, e \in ManifestExts : MintScope(i, e)
  \/ sc.pattern # <<>> /\ \E p \in TestPaths : TestScope(p)
  \/ ForgetScope

SpecScope == Init /\ [][NextScope]_vars


\* ==================================================== the proxy: POST /wrap
\* Host names as new URL(url).hostname returns them.
HostLocalhost == <<"l", "o", "c", "a", "l", "h", "o", "s", "t">>
HostUnspecified == <<"0", ".", "0", ".", "0", ".", "0">>
HostLoopback == <<"1", "2", "7", ".", "0", ".", "0", ".", "1">>
HostTen == <<"1", "0", ".", "0", ".", "0", ".", "1">>
Host172Low == <<"1", "7", "2", ".", "1", "6", ".", "0", ".", "1">>
Host172High == <<"1", "7", "2", ".", "3", "1", ".", "2", "5", "5", ".", "2", "5", "4">>
Host172Public == <<"1", "7", "2", ".", "3", "2", ".", "0", ".", "1">>
Host192 == <<"1", "9", "2", ".", "1", "6", "8", ".", "1", ".", "1">>
HostMetadata == <<"1", "6", "9", ".", "2", "5", "4", ".", "1", "6", "9", ".", "2", "5", "4">>
HostPublicIp == <<"8", ".", "8", ".", "8", ".", "8">>
HostName == <<"e", "x", "a", "m", "p", "l", "e", ".", "c", "o", "m">>
HostTenName == <<"1", "0", ".", "e", "x", "a", "m", "p", "l", "e", ".", "c", "o", "m">>
HostV6Loopback == <<"[", ":", ":", "1", "]">>
HostV6LinkLocal == <<"[", "f", "e", "8", "0", ":", ":", "1", "]">>
HostV6UniqueLocal == <<"[", "f", "d", "0", "0", ":", ":", "1", "]">>
WrapHosts ==
  { HostLocalhost,
    HostUnspecified,
    HostLoopback,
    HostTen,
    Host172Low,
    Host172High,
    Host172Public,
    Host192,
    HostMetadata,
    HostPublicIp,
    HostName,
    HostTenName,
    HostV6Loopback,
    HostV6LinkLocal,
    HostV6UniqueLocal }

\* config.ts 14-25: PRIVATE_IP_PATTERNS, each anchored at the start of the
\* host name.
IsDigitIn(c, lo, hi) == IsDigit(c) /\ DigitVal(c) >= lo /\ DigitVal(c) <= hi
Pattern172(h) ==
  /\ IsPrefix(<<"1", "7", "2", ".">>, h)
  /\ Len(h) >= 7
  /\ \/ h[5] = "1" /\ IsDigitIn(h[6], 6, 9)
     \/ h[5] = "2" /\ IsDigitIn(h[6], 0, 9)
     \/ h[5] = "3" /\ IsDigitIn(h[6], 0, 1)
  /\ h[7] = "."
PrivateIpPrefixes ==
  { <<"1", "2", "7", ".">>, <<"1", "0", ".">>, <<"1", "9", "2", ".", "1", "6", "8", ".">>,
    <<"1", "6", "9", ".", "2", "5", "4", ".">>, <<"0", ".">>,
    <<"[", ":", ":", "]">>, <<"[", ":", ":", "1", "]">>,
    <<"[", "f", "e", "8", "0", ":">>, <<"[", "f", "c", "0", "0", ":">> }
MatchesPrivateIpPattern(h) ==
  \/ \E p \in PrivateIpPrefixes : IsPrefix(p, h)
  \/ Pattern172(h)

\* The JSON body of the request: no url field, a number, the empty string,
\* a string new URL() rejects, or a string it parses into these parts.
UrlParses(b) == b.kind = "url"
BodyHasUrl(b) == b.kind \in {"text", "url"}

\* config.ts 27-47.
IsUpstreamAllowed(b) ==
  IF ~UrlParses(b) THEN FALSE
  ELSE IF b.protocol \notin {"http:", "https:"} THEN FALSE
  ELSE IF b.hostname \in {HostLocalhost, HostUnspecified} THEN FALSE
  ELSE IF MatchesPrivateIpPattern(b.hostname) THEN FALSE
  ELSE TRUE

\* String.prototype.toLowerCase on the letters the paths use.
LowerTable == [c \in {"M", "P", "U", "D"} |->
                 CASE c = "M" -> "m" [] c = "P" -> "p" [] c = "U" -> "u" [] c = "D" -> "d"]
LowerChar(c) == IF c \in DOMAIN LowerTable THEN LowerTable[c] ELSE c
LowerSeq(t) == [i \in 1..Len(t) |-> LowerChar(t[i])]
EndsWith(t, suf) == Len(suf) <= Len(t) /\ SubSeq(t, Len(t) - Len(suf) + 1, Len(t)) = suf

ProgressiveExts ==
  { <<".", "m", "p", "4">>, <<".", "m", "p", "3">>, <<".", "w", "e", "b", "m">>,
    <<".", "o", "g", "g">>, <<".", "m", "4", "a">>, <<".", "a", "a", "c">> }
\* config.ts 51-72.
DetectStreamKind(b) ==
  IF ~UrlParses(b) THEN "null"
  ELSE LET pathname == LowerSeq(b.pathname)
       IN IF EndsWith(pathname, <<".", "m", "3", "u", "8">>) THEN "hls"
          ELSE IF EndsWith(pathname, <<".", "m", "p", "d">>) THEN "dash"
          ELSE IF \E e \in ProgressiveExts : EndsWith(pathname, e) THEN "progressive"
          ELSE "null"

\* part_002 44-49: the run of letters and digits after the last dot of the
\* url (the urls here have no query and no fragment).
LastDot(t) == CHOOSE i \in 1..Len(t) : t[i] = "." /\ \A j \in (i + 1)..Len(t) : t[j] # "."
OriginalExt(b) ==
  IF \E i \in 1..Len(b.pathname) : b.pathname[i] = "."
  THEN Drop(b.pathname, LastDot(b.pathname))
  ELSE <<"m", "p", "4">>

\* part_002 63-72.
WrappedUrl(id, kind, ext) ==
  BaseUrl \o StreamPrefix \o id \o <<".">> \o
    (IF kind = "hls" THEN <<"m", "3", "u", "8">>
     ELSE IF kind = "dash" THEN <<"m", "p", "d">>
     ELSE ext)

\* A faulty collision test: createId is trusted to be fresh.
WrapIdNeverTaken(id) == FALSE
\* part_002 40: wrapped.has(id).
WrapIdTaken(id) == id \in DOMAIN wrapped

WrapAnswer(status, error, url, b, id) ==
  [status |-> status, error |-> error, wrappedUrl |-> url, body |-> b, id |-> id]

\* part_002 16-75: POST /wrap with JSON body b; id is what createId returns.
Wrap(b, id) ==
  /\ IF ~BodyHasUrl(b)
     THEN /\ wres' = WrapAnswer(400, "Missing or invalid url field", <<>>, b, <<>>)
          /\ UNCHANGED wrapped
     ELSE IF ~IsUpstreamAllowed(b)
     THEN /\ wres' = WrapAnswer(403, "Upstream not allowed", <<>>, b, <<>>)
          /\ UNCHANGED wrapped
     ELSE IF DetectStreamKind(b) = "null"
     THEN /\ wres' = WrapAnswer(400, "Cannot detect stream type", <<>>, b, <<>>)
          /\ UNCHANGED wrapped
     ELSE IF WrapIdTaken(id)
     THEN /\ wres' = WrapAnswer(409, "ID already exists", <<>>, b, <<>>)
          /\ UNCHANGED wrapped
     ELSE LET kind == DetectStreamKind(b)
              ext == IF kind = "progressive" THEN OriginalExt(b) ELSE <<>>
          IN /\ wrapped' = [i \in DOMAIN wrapped \cup {id} |->
                              IF i = id
                              THEN [id |-> id, originUrl |-> b, kind |-> kind,
                                    createdAt |-> clock * 1000, originalExt |-> ext]
                              ELSE wrapped[i]]
             /\ wres' = WrapAnswer(200, "", WrappedUrl(id, kind, ext), b, id)
  /\ UNCHANGED <<dvars, xvars, cvars, pvars>>

\* The ids createId may return.
WrapIds == { <<"a", "b", "c">>, <<"a", "b", "d">>, <<"x", "y", "z">> }
WrapPaths ==
  { <<"/", "v", ".", "m", "p", "4">>, <<"/", "v", ".", "M", "P", "4">>,
    <<"/", "v", ".", "m", "3", "u", "8">>, <<"/", "v", ".", "m", "p", "d">>,
    <<"/", "v", ".", "t", "x", "t">>, <<"/", "v">> }
WrapBodies ==
  { [kind |-> k] : k \in {"none", "number", "empty", "text"} }
  \cup { [kind |-> "url", protocol |-> "https:", hostname |-> HostName, pathname |-> p] :
           p \in WrapPaths }
  \cup { [kind |-> "url", protocol |-> "http:", hostname |-> h,
          pathname |-> <<"/", "v", ".", "m", "p", "4">>] : h \in WrapHosts }
  \cup { [kind |-> "url", protocol |-> pr, hostname |-> h, pathname |-> p] :
           pr \in {"file:"}, h \in {<<>>, HostName},
           p \in { <<"/", "v", ".", "m", "p", "4">>, <<"/", "v">> } }
  \cup { [kind |-> "url", protocol |-> "http:", hostname |-> HostLoopback, pathname |-> <<"/", "v">>] }

NextWrap == \E b \in WrapBodies, id \in WrapIds : Wrap(b, id)

SpecWrap == Init /\ [][NextWrap]_vars

\* =============================================== the signed identifier
\* validator.ts 41-43: resource, the 0x1F delimiter, the expiry in decimal.
ConstructCSIMessage(resource, expiry) == <<resource, "US", expiry>>

\* ethers verifyMessage: it throws on a signature that is no signature, and
\* otherwise recovers the address whose key signed the message with it; a
\* signature made over another message recovers an unrelated address.
SignMessage(w, message) == [signer |-> w, msg |-> message]
NoSignature == [signer |-> "nobody", msg |-> <<>>]
VerifyMessage(message, signature) ==
  IF signature = NoSignature THEN "throws"
  ELSE IF signature.msg = message THEN signature.signer
  ELSE "unrelated"

\* validator.ts 51-52: the options' defaults.
\* An option is <<>> when absent and <<value>> when given.
MaxSkewOf(o) == IF o.maxSkewSeconds = <<>> THEN CsiDefaultSkew ELSE o.maxSkewSeconds[1]
NowOf(o) == IF o.nowOverride = <<>> THEN clock ELSE o.nowOverride[1]

\* A faulty freshness test: an identifier expiring this second is accepted.
CsiExpiredStrict(c, nw) == c.expiry < nw
\* validator.ts 55 and 59.
CsiExpired(c, nw) == c.expiry <= nw
CsiTooFar(c, nw, skew) == c.expiry > nw + skew

\* validator.ts 50-77: what the call throws (error), what it returns
\* (signer), and whether verifyMessage was called.
RecoverCSISigner(c, o) ==
  LET nw == NowOf(o)
      skew == MaxSkewOf(o)
      recovered == VerifyMessage(ConstructCSIMessage(c.resource, c.expiry), c.signature)
  IN IF CsiExpired(c, nw)
     THEN [error |-> "CSI expired", signer |-> "none", verified |-> FALSE]
     ELSE IF CsiTooFar(c, nw, skew)
     THEN [error |-> "CSI expiry too far in future", signer |-> "none", verified |-> FALSE]
     ELSE IF c.curve # "secp256k1"
     THEN [error |-> "Unsupported curve", signer |-> "none", verified |-> FALSE]
     ELSE IF recovered = "throws"
     THEN [error |-> "Invalid CSI signature", signer |-> "none", verified |-> TRUE]
     ELSE [error |-> "", signer |-> recovered, verified |-> TRUE]

\* The identifiers and options a caller may pass.
CsiNows == {<<>>, <<100>>, <<101>>}
CsiSkews == {<<>>, <<0>>, <<1>>, <<5>>}
CsiOptions == { [maxSkewSeconds |-> k, nowOverride |-> n] : k \in CsiSkews, n \in CsiNows }
CsiExpiries(o) ==
  LET nw == NowOf(o)
      skew == MaxSkewOf(o)
  IN { nw + 1, nw + skew, nw + skew + 1 }
       \cup { e \in { nw - 1 } : e >= 0 }
       \cup { nw }
       \cup { e \in { nw + skew - 1 } : e >= 0 }
CsiResource == <<"/", "s", "t", "r", "e", "a", "m", "/", "a", "b", "c">>
CsiSignatures(e) ==
  { NoSignature, SignMessage("b1", ConstructCSIMessage(CsiResource, e)),
    SignMessage("b1", ConstructCSIMessage(CsiResource, e + 1)) }
CsiInputs(o) ==
  UNION { { [resource |-> CsiResource, expiry |-> e, curve |-> cv, signature |-> sg] :
              cv \in {"secp256k1", "ed25519"}, sg \in CsiSignatures(e) } : e \in CsiExpiries(o) }

\* The call and its outcome.
CsiCall(c, o) ==
  /\ csi.stage = "none"
  /\ csi' = [stage |-> "called", input |-> c, options |-> o, now |-> NowOf(o),
             skew |-> MaxSkewOf(o), result |-> RecoverCSISigner(c, o)]
  /\ UNCHANGED <<dvars, xvars, wvars, pvars>>

CsiForget ==
  /\ csi.stage = "called"
  /\ csi' = NoCsi
  /\ UNCHANGED <<dvars, xvars, wvars, pvars>>

NextCsi ==
  \/ csi.stage = "none" /\ \E o \in CsiOptions : \E c \in CsiInputs(o) : CsiCall(c, o)
  \/ CsiForget

SpecCsi == Init /\ [][NextCsi]_vars

\* ------------------------------------------------------------ the requests
\* The decimal string of k * stepAmount, for one digit k.
DigitChars == <<"1", "2", "3", "4", "5", "6", "7", "8", "9">>
Steps(k) == <<DigitChars[k]>> \o Tail(StepAmount)
ValueStrings == { Steps(k) : k \in 1..(MaxNonce + 1) }

\* Well-formed vouchers a client may send at time clock.
CoreVouchers ==
  { Voucher(id, MerchantAddress, Addr(b, "checksum"), AssetAddress, n, v, ts, ExpiryFar,
            ChainBaseSepolia) :
      id \in Ids, b \in Buyers, n \in 0..MaxNonce, v \in ValueStrings, ts \in {clock} }

\* Vouchers that differ from a well-formed one in one field.
OddVouchers ==
  LET base == { v \in CoreVouchers : v.timestamp = clock /\ v.buyer.who = "b1"
                                     /\ v.valueAggregate = StepAmount }
  IN UNION { { [v EXCEPT !.seller = ToLowerCase(MerchantAddress)],
               [v EXCEPT !.seller = Addr("b1", "checksum")],
               [v EXCEPT !.asset = ToLowerCase(AssetAddress)],
               [v EXCEPT !.asset = Addr("b2", "checksum")],
               [v EXCEPT !.buyer = Addr("b1", "lower")],
               [v EXCEPT !.chainId = ChainBase],
               [v EXCEPT !.expiry = clock],
               [v EXCEPT !.expiry = IF clock > 0 THEN clock - 1 ELSE 0],
               [v EXCEPT !.timestamp = clock + FutureSkew],
               [v EXCEPT !.timestamp = clock + FutureSkew + 1],
               [v EXCEPT !.valueAggregate = <<"0", "2", "0", "0", "0", "0">>],
               [v EXCEPT !.valueAggregate = <<"1", "x">>],
               [v EXCEPT !.valueAggregate = <<"1">>],
               [v EXCEPT !.seller = Undefined],
               [v EXCEPT !.asset = Undefined] } : v \in base }

\* Vouchers that fail two neighbouring checks of step 5.
TwoFaultVouchers ==
  LET base == { v \in CoreVouchers : v.timestamp = clock /\ v.buyer.who = "b1"
                                     /\ v.valueAggregate = StepAmount /\ v.nonce = 0 }
  IN UNION { { [v EXCEPT !.seller = Addr("b1", "checksum"), !.asset = Addr("b2", "checksum")],
               [v EXCEPT !.asset = Addr("b2", "checksum"), !.chainId = ChainBase],
               [v EXCEPT !.chainId = ChainBase, !.expiry = IF clock > 0 THEN clock - 1 ELSE 0],
               [v EXCEPT !.expiry = IF clock > 0 THEN clock - 1 ELSE 0,
                         !.timestamp = clock + FutureSkew + 1],
               [v EXCEPT !.seller = Addr("b1", "checksum"), !.asset = Undefined] } : v \in base }

Signatures(v) ==
  { SignVoucher(w, v) : w \in Buyers }
  \cup { voucherStore[i].signature : i \in {v.id} \cap DOMAIN voucherStore }

Headers ==
  { [kind |-> "none"], [kind |-> "malformed"] }
  \cup UNION { { [kind |-> "deferred", voucher |-> v, signature |-> s] :
                   s \in Signatures(v) } : v \in CoreVouchers }
  \cup { [kind |-> "deferred", voucher |-> v, signature |-> SignVoucher(v.buyer.who, v)] :
           v \in OddVouchers \cup TwoFaultVouchers }
  \cup { [kind |-> "deferred", voucher |-> v, signature |-> SignVoucher("b2", v)] :
           v \in { w \in OddVouchers : w.timestamp = clock + FutureSkew + 1 } }

SeqReq == {1}

Next ==
  \/ Tick
  \/ \E r \in SeqReq : pc[r] = "idle" /\ \E h \in Headers : Receive(r, h)
  \/ \E r \in SeqReq : AfterVerify(r)
  \/ \E r \in SeqReq : Validate(r)
  \/ \E r \in SeqReq : StoreVoucher(r)
  \/ \E r \in SeqReq : \E found \in BOOLEAN : Finish(r, found)
  \/ \E r \in SeqReq : \E st \in DownstreamStatuses : DownstreamEnd(r, st)
  \/ \E r \in SeqReq : Close(r)

Spec == Init /\ [][Next]_vars

\* Two or more requests in flight at once, arriving within the same second,
\* each carrying a well-formed voucher signed by its buyer, for a stream the
\* route handler does not know (it answers 404 inside next()).
RaceHeaders ==
  { [kind |-> "deferred", voucher |-> v, signature |-> SignVoucher(v.buyer.who, v)] :
      v \in { [c EXCEPT !.timestamp = ts] :
                c \in { c \in CoreVouchers :
                          /\ c.buyer.who = "b1"
                          /\ c.nonce < MaxNonce
                          /\ c.valueAggregate = Steps(c.nonce + 1) },
                ts \in {clock, clock + FutureSkew} } }

NextRace ==
  \/ \E r \in Req : pc[r] = "idle" /\ \E h \in RaceHeaders : Receive(r, h)
  \/ \E r \in Req : AfterVerify(r)
  \/ \E r \in Req : Validate(r)
  \/ \E r \in Req : StoreVoucher(r)
  \/ \E r \in Req : Finish(r, FALSE)
  \/ \E r \in Req : Close(r)

SpecRace == Init /\ [][NextRace]_vars

\* ===================================== both schemes, one request at a time
ExactIdle == epc = "idle"
DeferredIdle == \A r \in Req : pc[r] = "idle"

\* The exact requests on streams abc and xyz of a client that is no browser
\* and holds no token or one scoped to abc.
FewRequests ==
  { q \in ExactRequests :
      /\ ~q.browser
      /\ StreamIdOf(q.path) \in { <<"a", "b", "c">>, <<"x", "y", "z">> }
      /\ q.token.scope \in { <<>>, <<ScopePattern(ManifestPath(<<"a", "b", "c">>, <<"m", "p", "d">>))>> } }

NextAll ==
  \/ ExactIdle /\ Tick
  \/ ExactIdle /\ \E r \in SeqReq : pc[r] = "idle" /\ \E h \in Headers : Receive(r, h)
  \/ \E r \in SeqReq : AfterVerify(r)
  \/ \E r \in SeqReq : Validate(r)
  \/ \E r \in SeqReq : StoreVoucher(r)
  \/ \E r \in SeqReq, found \in BOOLEAN : Finish(r, found)
  \/ \E r \in SeqReq, status \in DownstreamStatuses : DownstreamEnd(r, status)
  \/ \E r \in SeqReq : Close(r)
  \/ DeferredIdle /\ epc = "idle" /\ \E q \in FewRequests, k \in HandlerKinds : EReceive(q, k)
  \/ \E v \in VerifyOutcomes, k \in HandlerKinds : EVerified(v, k)
  \/ \E s \in SettleOutcomes : ESettled(s)
  \/ \E u \in UpstreamOutcomes : DFetched(u)
  \/ \E d \in BOOLEAN : DRead(d)
  \/ EClose

SpecAll == Init /\ [][NextAll]_vars


\* ===================================================== the video player
\* BigInt.prototype.toString for a value >= 0.
DecimalChars == <<"0", "1", "2", "3", "4", "5", "6", "7", "8", "9">>
RECURSIVE ToDecimal(_)
ToDecimal(n) ==
  IF n < 10 THEN <<DecimalChars[n + 1]>>
  ELSE ToDecimal(n \div 10) \o <<DecimalChars[(n % 10) + 1]>>

\* walletClient.account.address of the connected wallet.
PlayerAccount == Addr("b1", "checksum")

\* What the ERROR handler reads of a 402 answer: HTML (JSON.parse throws), no
\* body at all, JSON without accepts[0], or accepts[0] with its extra.
HtmlBody == [kind |-> "html"]
EmptyBody == [kind |-> "empty"]
NoAcceptsBody == [kind |-> "noaccepts"]
Requirements(extra) == [kind |-> "requirements", extra |-> extra]
\* The 402 answers of other origins than the deferred middleware.
ForeignBodies == {HtmlBody, EmptyBody, NoAcceptsBody, Requirements([type |-> "other"])}
\* wagmi: no wallet client, a client without an account, a connected account.
Wallets == {"noclient", "noaccount", "connected"}

\* Lines 162-173: the voucher built from an aggregation hint.
AggregationVoucher(extra) ==
  Voucher(extra.voucher.id, extra.voucher.seller, extra.voucher.buyer, extra.voucher.asset,
          extra.voucher.nonce + 1,
          ToDecimal(BigInt(extra.voucher.valueAggregate) + PlayerStep),
          clock, extra.voucher.expiry, extra.voucher.chainId)

\* Lines 213-223: the voucher built from a "new" hint carrying identifier id.
InitialVoucher(id) ==
  Voucher(id, MerchantAddress, PlayerAccount, AssetAddress, 0, MaxAmountRequired,
          clock, clock + PlayerExpiry, ChainIdOf(Network))

\* Lines 98-238: the synchronous run of the ERROR handler on a 402 answer, up
\* to its return or to the await of signVoucher.  id is the identifier a
\* "new" hint carries.
Handle402(body, wallet, id) ==
  /\ UNCHANGED voucherState
  /\ IF signingInProgress \/ wallet = "noclient"
     THEN UNCHANGED <<signingInProgress, signing, loading>>
     ELSE IF body.kind = "html"
     THEN \* JSON.parse throws: the catch resets the flag and restarts loading
          /\ signingInProgress' = FALSE
          /\ loading' = TRUE
          /\ UNCHANGED signing
     ELSE IF body.kind \in {"empty", "noaccepts"}
     THEN \* lines 137-140: return, the flag stays set
          /\ signingInProgress' = TRUE
          /\ UNCHANGED <<signing, loading>>
     ELSE IF body.extra.type = "aggregation"
     THEN IF wallet = "noaccount"
          THEN /\ signingInProgress' = FALSE
               /\ loading' = FALSE
               /\ UNCHANGED signing
          ELSE IF BigInt(body.extra.voucher.valueAggregate) < 0
          THEN /\ signingInProgress' = FALSE
               /\ loading' = TRUE
               /\ UNCHANGED signing
          ELSE /\ signingInProgress' = TRUE
               /\ loading' = FALSE
               /\ signing' = Append(signing, AggregationVoucher(body.extra))
     ELSE IF body.extra.type # "new" \/ wallet = "noaccount"
     THEN /\ signingInProgress' = FALSE
          /\ UNCHANGED <<signing, loading>>
     ELSE /\ signingInProgress' = TRUE
          /\ signing' = Append(signing, InitialVoucher(id))
          /\ UNCHANGED loading

\* xhrSetup, lines 68-87: a segment request carries the player's voucher, or
\* no X-PAYMENT header while the player has none.
PlayerRequest(r) ==
  /\ loading
  /\ pc[r] = "idle"
  /\ Receive(r, voucherState)

\* The answer of slot r reaches hls.js and the request is over.
Delivered(r) ==
  /\ pc[r] = "done"
  /\ CanRun(r)
  /\ pc' = [pc EXCEPT ![r] = "idle"]
  /\ hdr' = [hdr EXCEPT ![r] = NoHeader]
  /\ now' = [now EXCEPT ![r] = 0]
  /\ prev' = [prev EXCEPT ![r] = <<>>]
  /\ res' = [res EXCEPT ![r] = NoResponse]
  /\ invoked' = [invoked EXCEPT ![r] = 0]
  /\ followed' = IF hdr[r] = voucherState THEN FALSE ELSE followed
  /\ UNCHANGED <<clock, voucherStore, running, config, journal, xvars, wvars, cvars>>

HintIds == {"v1", "v2", "v3"}
\* part_001 line 66: the identifier of a "new" hint is made of the time and a
\* random number; no voucher the server or the player holds has it.
FreshId(id) ==
  /\ ~Has(id)
  /\ voucherState.kind = "deferred" => voucherState.voucher.id # id
  /\ \A i \in 1..Len(signing) : signing[i].id # id

\* The deferred middleware's 402 for slot r raises the ERROR event.
PlayerOn402(r, wallet, id) ==
  /\ res[r].status = 402
  /\ res[r].sent
  /\ res[r].extra.type = "new" => FreshId(id)
  /\ res[r].extra.type = "aggregation" => res[r].extra.voucher.nonce < MaxNonce
  /\ Delivered(r)
  /\ Handle402(Requirements(res[r].extra), wallet, id)

\* A 402 of another origin raises the ERROR event.
PlayerOnForeign402(body, wallet) ==
  /\ Handle402(body, wallet, CHOOSE id \in HintIds : TRUE)
  /\ UNCHANGED <<dvars, xvars, wvars, cvars, followed>>

\* Any other answer: the segment is loaded or the load fails otherwise.
PlayerOnOther(r) ==
  /\ res[r].status # 402
  /\ Delivered(r)
  /\ UNCHANGED <<signingInProgress, voucherState, signing, loading>>

\* Lines 175-186, 226-238 and 239-248: signVoucher resolves and the voucher
\* becomes the player's, or it rejects (the user cancels) and the catch runs.
PlayerSigned(ok) ==
  /\ signing # <<>>
  /\ signing' = Tail(signing)
  /\ signingInProgress' = FALSE
  /\ loading' = TRUE
  /\ voucherState' = IF ok
                     THEN [kind |-> "deferred", voucher |-> Head(signing),
                           signature |-> SignVoucher(PlayerAccount.who, Head(signing))]
                     ELSE voucherState
  /\ followed' = (ok \/ followed)
  /\ UNCHANGED <<dvars, xvars, wvars, cvars>>

\* part_001 line 30: the server process starts again with an empty Map.  The
\* restarts considered happen while the player has no hint in hand, so that
\* every hint the player follows was computed from the store its next
\* request meets.
ServerRestart ==
  /\ \A r \in Req : pc[r] = "idle"
  /\ ~followed
  /\ signing = <<>>
  /\ voucherStore # EmptyStore
  /\ voucherStore' = EmptyStore
  /\ UNCHANGED <<clock, running, pc, hdr, now, prev, res, invoked, config, journal>>
  /\ UNCHANGED <<xvars, ovars>>

NextPlayer ==
  \/ Tick
  \/ \E r \in SeqReq : PlayerRequest(r)
  \/ \E r \in SeqReq : AfterVerify(r)
  \/ \E r \in SeqReq : Validate(r)
  \/ \E r \in SeqReq : StoreVoucher(r)
  \/ \E r \in SeqReq : Finish(r, TRUE)
  \/ \E r \in SeqReq : \E st \in DownstreamStatuses : DownstreamEnd(r, st)
  \/ \E r \in SeqReq : \E w \in Wallets : \E id \in HintIds : PlayerOn402(r, w, id)
  \/ \E r \in SeqReq : PlayerOnOther(r)
  \/ \E b \in ForeignBodies : \E w \in Wallets : PlayerOnForeign402(b, w)
  \/ \E ok \in BOOLEAN : PlayerSigned(ok)
  \/ ServerRestart

SpecPlayer == Init /\ [][NextPlayer]_vars

\* ------------------------------------------------------------------ claims
\* Handler r takes a step.
Moves(r) == pc'[r] # pc[r]
\* Handler r answers 402 in this step.
Rejects(r) == Moves(r) /\ pc'[r] = "done" /\ res'[r].status = 402 /\ res'[r].sent
\* The voucher handler r carries and the entry stored for its identifier.
V(r) == hdr[r].voucher
Stored(r) == voucherStore[V(r).id].voucher

\* C1: when the store has no entry for a voucher's identifier, a correctly
\* signed voucher with a nonce other than 0 is rejected with 402 and the store
\* still has no entry for the identifier; an entry is only ever created with
\* nonce 0.
C1_FirstUseNonceZero ==
  [][/\ \A r \in Req :
          (pc[r] = "validate" /\ Moves(r) /\ ~Has(V(r).id) /\ V(r).nonce # 0)
            => (Rejects(r) /\ V(r).id \notin DOMAIN voucherStore')
     /\ \A i \in Ids :
          (i \notin DOMAIN voucherStore /\ i \in DOMAIN voucherStore')
            => voucherStore'[i].voucher.nonce = 0]_vars

C1_Witness ==
  \E r \in Req :
    /\ pc[r] = "done" /\ res[r].status = 402
    /\ res[r].error = "First voucher must have nonce=0"
    /\ V(r).nonce # 0
    /\ VerifyVoucherSignature(V(r), hdr[r].signature)
    /\ ~Has(V(r).id)

\* C2: a voucher with nonce = stored.nonce + 1 is accepted only if its
\* valueAggregate equals stored.valueAggregate + stepAmount and its timestamp
\* is strictly greater than the stored one; otherwise it is rejected with 402
\* although its signature is valid, and the store is not changed.
C2_AggregationExact ==
  [][\A r \in Req :
       (pc[r] = "validate" /\ Moves(r) /\ Has(V(r).id) /\ V(r).nonce = Stored(r).nonce + 1)
         => IF /\ BigInt(V(r).valueAggregate)
                    = BigInt(Stored(r).valueAggregate) + BigInt(StepAmount)
               /\ V(r).timestamp > Stored(r).timestamp
            THEN TRUE
            ELSE Rejects(r) /\ voucherStore' = voucherStore]_vars

C2_Witness ==
  \E r \in Req :
    /\ pc[r] = "done" /\ res[r].status = 402
    /\ res[r].error = "Timestamp must increase"
    /\ Has(V(r).id) /\ V(r).nonce = Stored(r).nonce + 1
    /\ BigInt(V(r).valueAggregate) = BigInt(Stored(r).valueAggregate) + BigInt(StepAmount)
    /\ V(r).timestamp <= Stored(r).timestamp
    /\ VerifyVoucherSignature(V(r), hdr[r].signature)

\* C3: a voucher whose nonce equals the stored nonce is accepted if and only if
\* now - stored.timestamp <= config.voucherTimeWindow.
C3_ReuseWithinConfiguredWindow ==
  [][\A r \in Req :
       (pc[r] = "validate" /\ Moves(r) /\ Has(V(r).id) /\ V(r).nonce = Stored(r).nonce)
         => ((pc'[r] = "store") <=> (now[r] - Stored(r).timestamp <= VoucherTimeWindow))]_vars

\* C4: a voucher signed by an account other than its own buyer is rejected with
\* 402 and the store is not changed; no entry of the store carries a signature
\* that its voucher's buyer did not produce.
C4_ForeignSignerRejected ==
  [][/\ \A r \in Req :
          (pc[r] = "await_verify" /\ Moves(r)
             /\ hdr[r].signature.signer # V(r).buyer.who)
            => (Rejects(r) /\ voucherStore' = voucherStore)
     /\ \A i \in DOMAIN voucherStore' :
          voucherStore'[i].signature.signer = voucherStore'[i].voucher.buyer.who]_vars

C4_Witness ==
  \E r \in Req :
    /\ pc[r] = "done" /\ res[r].status = 402
    /\ res[r].error = "Invalid voucher signature"
    /\ hdr[r].signature.signer # V(r).buyer.who
    /\ hdr[r].signature.msg = TypedMessage(V(r))
    /\ Has(V(r).id)
    /\ StateError(V(r), StoreGet(V(r).id), now[r]) = ""

\* C5: the nonce stored for an identifier never decreases and changes by 0 or
\* by exactly 1 per accepted request; a voucher whose nonce is neither the
\* stored nonce nor the stored nonce + 1 is rejected with a nonce-mismatch 402.
C5_NonceStepwise ==
  [][/\ \A i \in DOMAIN voucherStore :
          /\ i \in DOMAIN voucherStore'
          /\ voucherStore'[i].voucher.nonce - voucherStore[i].voucher.nonce \in {0, 1}
     /\ \A r \in Req :
          (pc[r] = "validate" /\ Moves(r) /\ Has(V(r).id)
             /\ V(r).nonce \notin {Stored(r).nonce, Stored(r).nonce + 1})
            => (Rejects(r) /\ res'[r].error = "Nonce mismatch")]_vars

C5_Witness ==
  \E r \in Req :
    /\ pc[r] = "done" /\ res[r].status = 402 /\ res[r].error = "Nonce mismatch"
    /\ Has(V(r).id)
    /\ V(r).nonce > Stored(r).nonce + 1

\* C6: the valueAggregate stored for an identifier never decreases.
C6_ValueAggregateMonotone ==
  [][\A i \in DOMAIN voucherStore :
       /\ i \in DOMAIN voucherStore'
       /\ BigInt(voucherStore'[i].voucher.valueAggregate)
            >= BigInt(voucherStore[i].voucher.valueAggregate)]_vars

\* C7: the immutable fields (identifier, seller, buyer, asset, chainId, compared
\* case-normalized) of the voucher stored for an identifier never change.
C7_ImmutableFieldsKept ==
  [][\A i \in DOMAIN voucherStore :
       /\ i \in DOMAIN voucherStore'
       /\ ~ImmutableChanged(voucherStore'[i].voucher, voucherStore[i].voucher)]_vars

\* C8: a voucher for which now <= expiry does not hold is rejected with 402
\* whatever its nonce, its timestamp and the stored state, and the store is not
\* changed; a voucher with now <= expiry (now = expiry included) is not
\* rejected as expired.
C8_ExpiryHardBound ==
  [][\A r \in Req :
       (pc[r] = "idle" /\ Moves(r) /\ DecodePayment(hdr'[r]))
         => /\ ~(clock <= hdr'[r].voucher.expiry)
                 => (Rejects(r) /\ voucherStore' = voucherStore)
            /\ (clock <= hdr'[r].voucher.expiry)
                 => res'[r].error # "Voucher expired"]_vars

C8_Witness ==
  \E r \in Req :
    /\ pc[r] = "done" /\ res[r].status = 402 /\ res[r].error = "Voucher expired"
    /\ now[r] = V(r).expiry + 1
    /\ Has(V(r).id)
    /\ VerifyVoucherSignature(V(r), hdr[r].signature)
    /\ StateError(V(r), StoreGet(V(r).id), now[r]) = ""
    /\ Branch(V(r), StoreGet(V(r).id)) = "reuse"

\* C9: a request that ends in a 402 rejection leaves the store as it was: the
\* 402 is produced from a position before the store write, in a step that does
\* not change the store, and no step of a handler before its store write
\* changes the store.
BeforeWrite == {"idle", "await_verify", "validate"}
C9_RejectionLeavesStore ==
  [][\A r \in Req :
       /\ Rejects(r) => (pc[r] \in BeforeWrite /\ voucherStore' = voucherStore)
       /\ (pc[r] \in BeforeWrite /\ Moves(r)) => voucherStore' = voucherStore
       /\ (Moves(r) /\ pc'[r] \in BeforeWrite)
            => <<pc[r], pc'[r]>> \in {<<"done", "idle">>, <<"idle", "await_verify">>,
                                      <<"await_verify", "validate">>}]_vars

C9_Witness ==
  \E r \in Req :
    /\ pc[r] = "done" /\ res[r].status = 402
    /\ res[r].error = "Voucher timestamp expired, please aggregate"
    /\ Has(V(r).id)
    /\ voucherStore[V(r).id].voucher # V(r)

\* C10: with several requests for one identifier in flight, no accepted update
\* is lost (a handler writes the store only while the entry it validated
\* against is still the stored one), and an aggregation is committed only
\* while the store still holds the nonce it advances from, so no two
\* aggregations advance from the same stored nonce.
C10_NoLostUpdate ==
  [][\A r \in Req :
       (pc[r] = "store" /\ Moves(r))
         => /\ prev[r] = StoreGet(V(r).id)
            /\ Branch(V(r), prev[r]) = "aggregation"
                 => voucherStore[V(r).id].voucher.nonce + 1 = V(r).nonce]_vars

C10_Witness ==
  \E r, q \in Req :
    /\ r # q
    /\ pc[r] = "await_store" /\ pc[q] = "await_store"
    /\ V(r).id = V(q).id /\ V(r).nonce = V(q).nonce /\ V(r) # V(q)
    /\ Branch(V(r), prev[r]) = "aggregation"
    /\ Branch(V(q), prev[q]) = "reuse"
    /\ prev[q][1].voucher = V(r)

\* ------------------------------------------------ interception and scopes
\* The request's voucher passed every check of the deferred middleware.
Accepted(r) ==
  /\ DecodePayment(hdr[r])
  /\ FieldError(V(r), now[r]) = ""
  /\ VerifyVoucherSignature(V(r), hdr[r].signature)
  /\ StateError(V(r), prev[r], now[r]) = ""

\* The exact request carries a valid token whose scope matches its URL.
InScope(q) ==
  /\ q.token.kind = "valid"
  /\ \E i \in 1..Len(q.token.scope) : RegexTest(q.token.scope[i], BaseUrl \o q.path)

\* The 402 bodies of the exact middleware.
AuthFailureBodies ==
  {"paywall", "X-PAYMENT header is required", "Invalid or malformed payment header",
   "Unable to find matching payment requirements", "invalidReason", "verify error"}
SettleFailureBodies == {"errorReason", "settle error"}

\* C11: a side-effect is committed only once the downstream outcome is known:
\* when the downstream handler ends with a status of 400 or more, the store
\* holds no update from the request (deferred) and no settlement was made
\* (exact), and the handler's error response goes out unmodified.
C11_EffectsAfterOutcome ==
  /\ \A r \in Req :
       (pc[r] = "done" /\ invoked[r] = 1 /\ res[r].status >= 400)
         => StoreGet(V(r).id) = prev[r] /\ ~res[r].payResp
  /\ (epc = "returned" /\ down.pc = "ended" /\ down.status >= 400)
       => /\ ecalls.settle = 0
          /\ eres.finished /\ eres.sentStatus = down.status
          /\ ~eres.payResp /\ ~eres.token

\* C12: when the downstream handler's final status is 400 or more, settle is
\* never called and no X-Receipt-Token is attached, whether the handler fails
\* inside next() or after next() has returned.
C12_NoSettleOnError ==
  (down.pc = "ended" /\ down.status >= 400) => (ecalls.settle = 0 /\ ~eres.token)

\* C13: when the verifier accepts, the downstream handler succeeds and
\* settlement fails (success = false or a throw), the response is a 402 that
\* carries the settlement error, and no X-Receipt-Token is attached.
C13_SettleFailureAnswers402 ==
  (/\ epc = "returned" /\ down.pc = "ended" /\ down.status < 400
   /\ ecalls.verifyResult = "valid"
   /\ ecalls.settleResult \in {"failure", "throws"})
    => /\ eres.finished /\ eres.sentStatus = 402
       /\ eres.body \in SettleFailureBodies
       /\ ~eres.token

\* C14: a request with a valid token whose scope matches its URL is handed
\* downstream with no verify, no settle and no new token; with any other token
\* the request is treated as one without a token: 402 for a missing or unusable
\* payment header, the verifier for a usable one.
C14_TokenBypass ==
  [][(epc' # "idle") =>
       IF InScope(ereq')
       THEN /\ ecalls'.verify = 0 /\ ecalls'.settle = 0 /\ ecalls'.sign = 0
            /\ ~eres'.token /\ ~eres'.payResp /\ ~eres'.hooked
            /\ ecalls'.next = 1 /\ epc' = "returned"
       ELSE (epc = "idle") =>
              /\ ecalls'.next = 0
              /\ IF ereq'.payment = "ok"
                 THEN epc' = "await_verify" /\ ecalls'.verify = 1 /\ ~eres'.finished
                 ELSE /\ epc' = "returned" /\ ecalls'.verify = 0
                      /\ eres'.finished /\ eres'.sentStatus = 402
                      /\ eres'.body \in AuthFailureBodies]_vars

C14_Witness ==
  /\ InScope(ereq) /\ ereq.payment = "ok"
  /\ epc = "returned" /\ ecalls.next = 1 /\ ecalls.verify = 0
  /\ down.pc = "ended" /\ eres.finished /\ eres.sentStatus = 200

\* C15: a token is attached only if the verifier answered valid, the
\* downstream status was below 400 and settle answered success; settle is
\* called at most once and only after a valid verification; at most one token
\* is issued per request.
C15_TokenOnlyAfterAll ==
  /\ eres.token => /\ ecalls.verifyResult = "valid"
                   /\ ecalls.settleResult = "success"
                   /\ down.pc = "ended" => down.status < 400
  /\ ecalls.settle <= 1
  /\ ecalls.settle = 1 => ecalls.verifyResult = "valid"
  /\ ecalls.sign <= 1

\* C16 as stated: the downstream handler is invoked only after authorization
\* has succeeded, and no request answered by a gateway 402 reaches it.
C16_NoGateway402AfterDownstream ==
  /\ \A r \in Req :
       /\ invoked[r] >= 1 => Accepted(r)
       /\ (pc[r] = "done" /\ res[r].status = 402) => invoked[r] = 0
  /\ ecalls.next >= 1 => InScope(ereq) \/ (ereq.payment = "ok" /\ ecalls.verifyResult = "valid")
  /\ (eres.finished /\ eres.body \in AuthFailureBodies \cup SettleFailureBodies)
       => ecalls.next = 0

\* C16: the downstream handler is invoked only after authorization has
\* succeeded, and no request answered by a 402 for failed authorization
\* reaches it (the 402 of a failed settlement comes after the handler ran).
C16_AuthorizationFirst ==
  /\ \A r \in Req :
       /\ invoked[r] >= 1 => Accepted(r)
       /\ (pc[r] = "done" /\ res[r].status = 402) => invoked[r] = 0
  /\ ecalls.next >= 1 => InScope(ereq) \/ (ereq.payment = "ok" /\ ecalls.verifyResult = "valid")
  /\ (eres.finished /\ eres.body \in AuthFailureBodies) => ecalls.next = 0

C16_Witness ==
  /\ epc = "returned" /\ ereq.payment = "malformed" /\ ~InScope(ereq)
  /\ eres.finished /\ eres.sentStatus = 402 /\ ecalls.next = 0

\* C17: the X-PAYMENT-RESPONSE header is on the response if and only if the
\* voucher was accepted and the downstream handler's final status is below 400.
C17_AckOnlyOnSuccess ==
  \A r \in Req :
    pc[r] = "done" => (res[r].payResp <=> (invoked[r] = 1 /\ res[r].status < 400))

\* C18: an authorized request invokes the downstream handler exactly once, and
\* the status and body sent are the handler's own, except for the 402 that
\* overwrites them after a failed settlement.
C18_OncePassThrough ==
  /\ \A r \in Req :
       /\ invoked[r] <= 1
       /\ (pc[r] \in {"downstream", "done"} /\ Accepted(r)) => invoked[r] = 1
       /\ (pc[r] = "done" /\ invoked[r] = 1)
            => res[r].sent /\ res[r].error = "" /\ res[r].status \in DownstreamStatuses
  /\ ecalls.next <= 1
  /\ (epc \in {"await_settle", "returned"}
        /\ (InScope(ereq) \/ ecalls.verifyResult = "valid")) => ecalls.next = 1
  /\ (epc = "returned" /\ down.pc = "ended")
       => /\ eres.finished
          /\ \/ eres.sentStatus = down.status /\ eres.body \in {"downstream", "none"}
             \/ /\ ecalls.settleResult \in {"failure", "throws"}
                /\ eres.sentStatus = 402 /\ eres.body \in SettleFailureBodies

C18_Witness ==
  /\ epc = "returned" /\ down.pc = "ended" /\ ecalls.next = 1
  /\ ecalls.settleResult = "success" /\ eres.token
  /\ eres.finished /\ eres.sentStatus = 200 /\ eres.body = "downstream"

\* C19: requests with the stored nonce are accepted for at most 20 seconds
\* after a voucher with that nonce was accepted (a fortiori after the last
\* time one was accepted), and are asked to aggregate afterwards.
C19_ReuseBounded ==
  [][\A r \in Req :
       (pc[r] = "validate" /\ Moves(r) /\ prev[r] # <<>>
          /\ V(r).nonce = prev[r][1].voucher.nonce /\ pc'[r] = "store")
         => now[r] * 1000 - prev[r][1].lastValidated <= ReuseWindowLiteral * 1000]_vars

\* C20: the scope minted for stream id S matches the manifest URL
\* <base>/stream/S.<ext> and every URL under <base>/stream/S/, and matches no
\* URL of a stream whose id does not begin with S.
C20_ScopeCoversStream ==
  sc.result # "none" =>
    LET own == BaseUrl \o StreamPrefix \o sc.id
        matched == sc.result = "match"
    IN /\ (\E e \in ManifestExts : sc.url = own \o <<".">> \o e) => matched
       /\ IsPrefix(own \o <<"/">>, sc.url) => matched
       /\ (\E t \in StreamIds :
             /\ ~IsPrefix(sc.id, t)
             /\ \E c \in {".", "/"} : IsPrefix(BaseUrl \o StreamPrefix \o t \o <<c>>, sc.url))
            => ~matched

C20_Witness ==
  /\ sc.id = <<"a", "b", "c">>
  /\ sc.url = BaseUrl \o SegmentPath(<<"a", "b", "c">>, <<"s", "e", "g", "0", ".", "t", "s">>)
  /\ sc.result = "match"

\* ------------------------------------------------- hints, order and fields
\* C21: a same-nonce voucher rejected for being outside the reuse window gets
\* a 402 whose hint is {aggregation, voucher, signature} with the voucher and
\* signature held in the store for the identifier, and the store is unchanged.
C21_StoredVoucherEchoed ==
  [][\A r \in Req :
       (Rejects(r) /\ res'[r].error = "Voucher timestamp expired, please aggregate")
         => /\ Has(V(r).id) /\ V(r).nonce = Stored(r).nonce
            /\ res'[r].extra = [type |-> "aggregation",
                                voucher |-> voucherStore[V(r).id].voucher,
                                signature |-> voucherStore[V(r).id].signature]
            /\ voucherStore' = voucherStore]_vars

C21_Witness ==
  \E r \in Req :
    /\ pc[r] = "done" /\ res[r].status = 402
    /\ res[r].error = "Voucher timestamp expired, please aggregate"
    /\ res[r].extra.voucher # V(r)
    /\ res[r].extra.voucher = Stored(r)

\* C22: the hint of every 402 of the deferred scheme is {new}, or
\* {aggregation} with the voucher and signature last accepted and stored for
\* the identifier; a voucher the server has not accepted is never echoed.
C22_HintIsLastValidState ==
  \A r \in Req :
    (pc[r] = "done" /\ res[r].status = 402)
      => \/ res[r].extra.type = "new"
         \/ /\ res[r].extra.type = "aggregation"
            /\ Has(res[r].extra.voucher.id)
            /\ voucherStore[res[r].extra.voucher.id].voucher = res[r].extra.voucher
            /\ voucherStore[res[r].extra.voucher.id].signature = res[r].extra.signature

\* C23: a request whose header decodes as a deferred payment and that is not
\* authorized gets a 402 with an error reason and a requirement hint; it ends
\* neither in a 5xx nor in an exception without a response.
C23_FailureIs402 ==
  \A r \in Req :
    (pc[r] = "done" /\ DecodePayment(hdr[r]) /\ invoked[r] = 0)
      => /\ res[r].sent /\ res[r].status = 402
         /\ res[r].error # ""
         /\ res[r].extra.type \in {"new", "aggregation"}

\* The request's voucher as it stands after the step, and its single faults.
Vn(r) == hdr'[r].voucher
Arrives(r) == pc[r] = "idle" /\ Moves(r) /\ DecodePayment(hdr'[r])
WellFormed(v) == v.seller # Undefined /\ v.asset # Undefined
SellerDiffers(v) == ToLowerCase(v.seller) # ToLowerCase(MerchantAddress)
AssetDiffers(v) == ToLowerCase(v.asset) # ToLowerCase(AssetAddress)
ChainDiffers(v) == v.chainId # ChainBaseSepolia
PastExpiry(v) == clock > v.expiry
TooFarAhead(v) == v.timestamp > clock + FutureSkew
Answer(r, reason) == pc'[r] = "done" /\ res'[r].status = 402 /\ res'[r].error = reason

InitLife ==
  /\ Started
  /\ config = [priceValid |-> TRUE]
  /\ journal = JournalOn

LifeTick ==
  /\ running = 0
  /\ \E d \in {LifeGap, ReuseWindowLiteral} :
       /\ clock + d <= MaxLifeClock
       /\ clock' = clock + d
  /\ UNCHANGED <<voucherStore, running, pc, hdr, now, prev, res>>
  /\ UNCHANGED <<invoked, config, journal, xvars, ovars>>

LifeVoucher(n, ts) ==
  Voucher("v1", MerchantAddress, Addr("b1", "checksum"), AssetAddress, n, Steps(n + 1), ts,
          ExpiryFar, ChainBaseSepolia)
LifeHeader(n, ts) ==
  [kind |-> "deferred", voucher |-> LifeVoucher(n, ts),
   signature |-> SignVoucher("b1", LifeVoucher(n, ts))]
\* The stream the client asks for is unknown to the route handler.
LifeHeaders == { LifeHeader(n, ts) : n \in {0, 1}, ts \in {0, clock} }

\* The scenario: the first voucher at 0, again LifeGap seconds later, again
\* more than the reuse window after its timestamp, then its successor.
LifeLate == LifeGap + ReuseWindowLiteral
LifeInputs ==
  << [h |-> LifeHeader(0, 0), at |-> 0],
     [h |-> LifeHeader(0, 0), at |-> LifeGap],
     [h |-> LifeHeader(0, 0), at |-> LifeLate],
     [h |-> LifeHeader(1, LifeLate), at |-> LifeLate] >>
LifeResults ==
  << "accepted", "accepted", "Voucher timestamp expired, please aggregate", "accepted" >>
LifeNonces == << 0, 0, 0, 1 >>
Follows(k) ==
  /\ k <= Len(journal.entries)
  /\ \A i \in 1..k :
       /\ journal.entries[i].voucher = LifeInputs[i].h.voucher
       /\ journal.entries[i].signature = LifeInputs[i].h.signature
       /\ journal.entries[i].at = LifeInputs[i].at

NextLife ==
  \/ LifeTick
  \/ /\ pc[1] = "idle"
     /\ Len(journal.entries) < Len(LifeInputs)
     /\ \E h \in LifeHeaders : Receive(1, h)
  \/ AfterVerify(1)
  \/ Validate(1)
  \/ StoreVoucher(1)
  \/ Finish(1, FALSE)
  \/ Close(1)

SpecLife == InitLife /\ [][NextLife]_vars

\* C24: from an empty store, voucher v1 nonce 0 value 10000, the same voucher
\* 5 seconds later, the same voucher 25 seconds after its timestamp, and v1
\* nonce 1 value 20000 with a later timestamp are answered accept, accept,
\* reject (aggregation required), accept; the store holds nonce 0 after each
\* of the first three and nonce 1 after the fourth.
C24_Lifecycle ==
  \A k \in 1..Len(LifeInputs) :
    Follows(k) =>
      /\ journal.entries[k].result = LifeResults[k]
      /\ journal.entries[k].nonce = LifeNonces[k]

C24_Witness ==
  /\ Follows(Len(LifeInputs))
  /\ voucherStore["v1"].voucher = LifeVoucher(1, LifeLate)

\* --------------------------------------------------------- store writes
\* C27: the write of an accepted voucher is the only mutation of the store;
\* from the read of the prior state the decision rests on until the write, no
\* other request runs, so none reads or writes the entry in between; a
\* request that has not reached its write has changed nothing in the store.
C27_AtomicWrite ==
  [][/\ voucherStore' # voucherStore =>
          \E r \in Req :
            /\ pc[r] = "store" /\ pc'[r] = "await_store"
            /\ Accepted(r)
            /\ prev[r] = StoreGet(V(r).id)
            /\ DOMAIN voucherStore' = DOMAIN voucherStore \cup {V(r).id}
            /\ voucherStore'[V(r).id].voucher = V(r)
            /\ voucherStore'[V(r).id].signature = hdr[r].signature
            /\ \A i \in DOMAIN voucherStore \ {V(r).id} : voucherStore'[i] = voucherStore[i]
     /\ \A r \in Req :
          pc[r] \in {"validate", "store"} =>
            /\ \A q \in Req \ {r} : pc'[q] = pc[q] /\ prev'[q] = prev[q]
            /\ pc[r] = "validate" => voucherStore' = voucherStore
            /\ prev[r] = StoreGet(V(r).id)]_vars

C27_Witness ==
  \E r, q \in Req :
    /\ r # q
    /\ pc[r] = "await_store" /\ pc[q] = "await_verify"
    /\ V(r).id = V(q).id
    /\ voucherStore[V(r).id].voucher = V(r)
    /\ prev[r] # <<>> /\ prev[r][1].voucher # V(r)

\* ==================================================== two identifiers
\* Two requests in flight, each for one of two voucher identifiers, arriving
\* within the same second, for a stream the route handler does not know.
TwoIds == {"v1", "v2"}
PairReq == {1, 2}
TwoIdHeaders ==
  { [kind |-> "deferred", voucher |-> v, signature |-> SignVoucher("b1", v)] :
      v \in { Voucher(id, MerchantAddress, Addr("b1", "checksum"), AssetAddress, n,
                      Steps(n + 1), clock + n * FutureSkew, ExpiryFar, ChainBaseSepolia) :
                id \in TwoIds, n \in {0, 1} } }

NextIds ==
  \/ \E r \in PairReq : pc[r] = "idle" /\ \E h \in TwoIdHeaders : Receive(r, h)
  \/ \E r \in PairReq : AfterVerify(r)
  \/ \E r \in PairReq : Validate(r)
  \/ \E r \in PairReq : StoreVoucher(r)
  \/ \E r \in PairReq : Finish(r, FALSE)
  \/ \E r \in PairReq : Close(r)

SpecIds == Init /\ [][NextIds]_vars

\* The store's entry for identifier id, whatever else the store holds.
EntryOf(store, id) == IF id \in DOMAIN store THEN <<store[id]>> ELSE <<>>

\* C28: a request carrying a voucher for identifier A reads only A's entry,
\* leaves the entry of every other identifier B as it was, and is accepted or
\* rejected by its voucher, the time and A's entry alone, whatever requests
\* for B run in between.
C28_IdentifierIndependence ==
  [][\A r \in Req :
       (Moves(r) /\ pc[r] # "idle") =>
         LET A == V(r).id IN
         /\ \A B \in TwoIds \ {A} : EntryOf(voucherStore', B) = EntryOf(voucherStore, B)
         /\ pc[r] = "await_verify" => prev'[r] \in {<<>>, EntryOf(voucherStore, A)}
         /\ pc[r] = "validate" =>
              /\ pc'[r] = "store" <=>
                   StateError(V(r), EntryOf(voucherStore, A), now[r]) = ""
              /\ pc'[r] = "done" =>
                   res'[r].error = StateError(V(r), EntryOf(voucherStore, A), now[r])
         /\ \A q \in Req \ {r} :
              (pc[q] # "idle" /\ V(q).id # A) =>
                 pc'[q] = pc[q] /\ prev'[q] = prev[q] /\ res'[q] = res[q]]_vars

C28_Witness ==
  \E r, q \in Req :
    /\ pc[r] = "await_store" /\ V(r).id = "v1" /\ V(r).nonce = 1
    /\ pc[q] = "await_verify" /\ V(q).id = "v2" /\ V(q).nonce = 1
    /\ voucherStore["v1"].voucher = V(r)
    /\ "v2" \in DOMAIN voucherStore /\ voucherStore["v2"].voucher.nonce = 0

\* ================================================= requests off the routes
\* A faulty bypass: the unmatched request is asked for payment.
PassThroughCharged(r, h, found) ==
  /\ pc[r] = "idle"
  /\ CanRun(r)
  /\ hdr' = [hdr EXCEPT ![r] = [kind |-> "unrouted", payment |-> h]]
  /\ pc' = [pc EXCEPT ![r] = "done"]
  /\ running' = Holder(r, "done")
  /\ res' = [res EXCEPT ![r] = Rejection("X-PAYMENT header is required",
                                         GetPaymentRequirementsExtra(h))]
  /\ UNCHANGED <<clock, voucherStore, now, prev>>
  /\ UNCHANGED <<invoked, config, journal, xvars, ovars>>

\* Lines 99-112: findMatchingRoute finds no priced route for the request's
\* method and path, and the deferred middleware returns next().  h is the
\* X-PAYMENT header the request carries, found what the handler behind finds.
PassThrough(r, h, found) ==
  /\ pc[r] = "idle"
  /\ CanRun(r)
  /\ hdr' = [hdr EXCEPT ![r] = [kind |-> "unrouted", payment |-> h]]
  /\ LET next == IF found THEN "downstream" ELSE "done"
     IN /\ pc' = [pc EXCEPT ![r] = next]
        /\ running' = Holder(r, next)
        /\ res' = [res EXCEPT ![r] =
                     IF found THEN NoResponse
                     ELSE [NoResponse EXCEPT !.status = 404, !.sent = TRUE]]
  /\ invoked' = [invoked EXCEPT ![r] = @ + 1]
  /\ UNCHANGED <<clock, voucherStore, now, prev>>
  /\ UNCHANGED <<config, journal, xvars, ovars>>

\* A path outside the priced patterns.
OffRoutePath == <<"/", "h", "e", "a", "l", "t", "h">>
OffRouteRequests ==
  { [token |-> t, payment |-> p, browser |-> b, path |-> OffRoutePath] :
      t \in {NoToken, [kind |-> "valid",
                       scope |-> <<ScopePattern(ManifestPath(<<"a", "b", "c">>, <<"m", "p", "d">>))>>]},
      p \in Payments, b \in BOOLEAN }

\* Lines 515-569: the token, if any, does not cover the URL (or it does: the
\* outcome is the same), no route matches, and the exact middleware returns
\* next() with res.end as it was.
EPassThrough(q, k) ==
  /\ epc = "idle"
  /\ ereq' = q
  /\ LET h == HandlerEntry(eres, k)
     IN /\ eres' = h.res
        /\ down' = h.down
  /\ ecalls' = [ecalls EXCEPT !.next = @ + 1]
  /\ epc' = "returned"
  /\ UNCHANGED <<ovars, dvars, sc>>

NextBypass ==
  \/ \E r \in SeqReq : pc[r] = "idle" /\ ExactIdle /\ \E h \in RaceHeaders : Receive(r, h)
  \/ \E r \in SeqReq : pc[r] = "idle" /\ ExactIdle
                       /\ \E h \in RaceHeaders \cup {NoHeader}, found \in BOOLEAN :
                            PassThrough(r, h, found)
  \/ \E r \in SeqReq : AfterVerify(r)
  \/ \E r \in SeqReq : Validate(r)
  \/ \E r \in SeqReq : StoreVoucher(r)
  \/ \E r \in SeqReq, found \in BOOLEAN : Finish(r, found)
  \/ \E r \in SeqReq, status \in DownstreamStatuses : DownstreamEnd(r, status)
  \/ \E r \in SeqReq : Close(r)
  \/ DeferredIdle /\ epc = "idle" /\ \E q \in FewRequests, k \in HandlerKinds : EReceive(q, k)
  \/ epc = "idle" /\ \E q \in OffRouteRequests, k \in HandlerKinds : EPassThrough(q, k)
  \/ \E v \in VerifyOutcomes, k \in HandlerKinds : EVerified(v, k)
  \/ \E s \in SettleOutcomes : ESettled(s)
  \/ \E u \in UpstreamOutcomes : DFetched(u)
  \/ \E d \in BOOLEAN : DRead(d)
  \/ EClose

SpecBypass == Init /\ [][NextBypass]_vars

Unrouted(r) == hdr[r].kind = "unrouted"
EUnrouted == ereq.path = OffRoutePath

\* C29: a request whose method and path match no priced route is handed to
\* the handler behind the middleware: next() is called once, no payment
\* header is examined, no 402 is produced, the voucher store is not touched
\* and neither verify nor settle is called.
C29_RouteBypass ==
  [][/\ \A r \in Req :
          (pc[r] = "idle" /\ Moves(r) /\ hdr'[r].kind = "unrouted") =>
             /\ invoked'[r] = invoked[r] + 1
             /\ pc'[r] \in {"downstream", "done"}
             /\ res'[r].status # 402 /\ res'[r].error = "" /\ ~res'[r].payResp
             /\ voucherStore' = voucherStore /\ prev' = prev /\ journal' = journal
     /\ \A r \in Req :
          Unrouted(r) =>
             /\ voucherStore' = voucherStore
             /\ res'[r].status # 402 /\ ~res'[r].payResp
             /\ pc'[r] \in {"downstream", "done", "idle"}
     /\ (epc = "idle" /\ epc' # "idle" /\ ereq'.path = OffRoutePath) =>
             /\ ecalls'.next = ecalls.next + 1
             /\ epc' = "returned"
             /\ ~eres'.hooked
     /\ EUnrouted =>
             /\ ecalls'.verify = 0 /\ ecalls'.settle = 0 /\ ecalls'.sign = 0
             /\ eres'.statusCode # 402 /\ eres'.sentStatus # 402
             /\ ~eres'.token /\ ~eres'.payResp]_vars

C29_Witness ==
  /\ \E r \in Req :
       /\ Unrouted(r) /\ hdr[r].payment.kind = "deferred"
       /\ pc[r] = "done" /\ res[r].status = 200 /\ res[r].sent
       /\ invoked[r] = 1
       /\ voucherStore = EmptyStore
  /\ EUnrouted /\ ereq.payment = "ok" /\ epc = "returned"
  /\ eres.finished /\ eres.sentStatus = 200
  /\ ecalls.next = 1 /\ ecalls.verify = 0

\* ==================================================== any route table
\* Lines 83-95 and 497-510: creating a middleware compiles the route
\* patterns and converts no price, so it succeeds whether or not the route's
\* price converts.
InitAnyPrice ==
  /\ Started
  /\ config \in { [priceValid |-> b] : b \in BOOLEAN }
  /\ journal = JournalOff

SpecConfig == InitAnyPrice /\ [][NextBypass]_vars

\* C30: an invalid price in the route table is detected when the middleware
\* is created, so no request is accepted, rejected or left unanswered because
\* the price conversion failed while the request was handled.
C30_PriceFailureAtStartup ==
  /\ \A r \in Req : res[r].error # "PriceError"
  /\ ~(~config.priceValid /\ epc = "returned" /\ ecalls.next = 0)

\* ------------------------------------------------------------- the proxy
\* Hosts that are localhost, 0.0.0.0, or a private or link-local address
\* (RFC 1918, RFC 3927, loopback, RFC 4193 unique local, RFC 4291 link-local).
PrivateHosts ==
  { HostLocalhost, HostUnspecified, HostLoopback, HostTen, Host172Low, Host172High, Host192,
    HostMetadata, HostV6Loopback, HostV6LinkLocal, HostV6UniqueLocal }
RecognisedExtension(pathname) ==
  \E e \in ProgressiveExts \cup { <<".", "m", "3", "u", "8">>, <<".", "m", "p", "d">> } :
    EndsWith(LowerSeq(pathname), e)
Answered == wres' # wres

\* C31: POST /wrap checks in a fixed order and stores nothing on failure: no
\* string url: 400; else a protocol other than http/https, or a host that is
\* localhost, 0.0.0.0 or a private or link-local address: 403; else a path
\* without a recognised stream extension: 400; only a request that passes
\* all three adds an entry and gets a wrappedUrl.
C31_WrapValidation ==
  [][Answered =>
       LET b == wres'.body IN
       /\ wres'.status # 200 => wrapped' = wrapped
       /\ wrapped' # wrapped => wres'.status = 200 /\ wres'.wrappedUrl # <<>>
       /\ b.kind \in {"none", "number"} => wres'.status = 400
       /\ b.kind = "url" =>
            IF b.protocol \notin {"http:", "https:"} \/ b.hostname \in PrivateHosts
            THEN wres'.status = 403
            ELSE IF ~RecognisedExtension(b.pathname) THEN wres'.status = 400
            ELSE wres'.status \in {200, 409}]_vars

\* C32: a successful POST /wrap creates its entry under an identifier the
\* map did not hold: the wrappedUrl differs from that of every earlier wrap,
\* and every entry present before is still there, unchanged.
C32_FreshIdentifier ==
  [][/\ \A i \in DOMAIN wrapped : i \in DOMAIN wrapped' /\ wrapped'[i] = wrapped[i]
     /\ (Answered /\ wres'.status = 200) =>
       /\ wres'.id \notin DOMAIN wrapped
       /\ DOMAIN wrapped' = DOMAIN wrapped \cup {wres'.id}
       /\ \A i \in DOMAIN wrapped :
            /\ wrapped'[i] = wrapped[i]
            /\ WrappedUrl(i, wrapped[i].kind, wrapped[i].originalExt) # wres'.wrappedUrl]_vars

C32_Witness ==
  \E i, j \in DOMAIN wrapped :
    /\ i # j
    /\ wrapped[i].originUrl = wrapped[j].originUrl
    /\ wres.status = 409

\* ------------------------------------------------- the signed identifier
\* C33: recoverCSISigner returns a signer only if now < expiry <= now +
\* maxSkewSeconds (60 by default); with expiry <= now, and with expiry > now
\* + maxSkewSeconds, it throws before any signature recovery is attempted.
C33_Freshness ==
  csi.stage = "called" =>
    LET e == csi.input.expiry
        nw == csi.now
        skew == IF csi.options.maxSkewSeconds = <<>> THEN 60 ELSE csi.options.maxSkewSeconds[1]
    IN /\ csi.result.signer # "none" => nw < e /\ e <= nw + skew /\ csi.result.error = ""
       /\ e <= nw => csi.result.error = "CSI expired" /\ ~csi.result.verified
       /\ e > nw + skew =>
            /\ csi.result.error = "CSI expiry too far in future"
            /\ ~csi.result.verified
       /\ csi.result.error # "" => csi.result.signer = "none"

C33_Witness ==
  /\ csi.stage = "called"
  /\ csi.options.maxSkewSeconds = <<>>
  /\ csi.input.expiry = csi.now + 60
  /\ csi.result.signer = "b1"

\* ------------------------------------------------------- reuse and replay
\* C34: a same-nonce request accepted as reuse leaves the stored voucher and
\* signature of its identifier as they were (only the time of validation
\* advances); a differently signed or differently valued voucher with the
\* stored nonce cannot replace the stored one.
C34_ReuseKeepsVoucher ==
  [][\A r \in Req :
       (pc[r] = "store" /\ Moves(r) /\ Branch(V(r), prev[r]) = "reuse") =>
         /\ voucherStore'[V(r).id].voucher = voucherStore[V(r).id].voucher
         /\ voucherStore'[V(r).id].signature = voucherStore[V(r).id].signature]_vars

\* C35: a token minted for a request on stream S matches only URLs of stream
\* S: for every stream id T other than S, ids that S is a proper prefix of
\* included, neither <base>/stream/T.<ext> nor any URL under <base>/stream/T/
\* matches the token's scope.
C35_StreamIsolation ==
  sc.result # "none" =>
    \A t \in StreamIds \ {sc.id} :
      (\E c \in {".", "/"} : IsPrefix(BaseUrl \o StreamPrefix \o t \o <<c>>, sc.url))
        => sc.result = "no match"

\* The request in slot r, as it is after this step, carries a voucher whose
\* nonce is below the one stored for its identifier.
Superseded(r) ==
  /\ DecodePayment(hdr'[r])
  /\ Has(Vn(r).id)
  /\ Vn(r).nonce < voucherStore[Vn(r).id].voucher.nonce

\* C36: once a voucher with nonce n + 1 has been accepted for an identifier,
\* every later request carrying a voucher with nonce <= n for it is rejected
\* with 402 and leaves the store unchanged.
C36_NoReplay ==
  [][\A r \in Req :
       (Moves(r) /\ pc[r] \in {"idle", "await_verify", "validate"} /\ Superseded(r)) =>
         /\ voucherStore' = voucherStore
         /\ pc'[r] \in {"await_verify", "validate", "done"}
         /\ pc'[r] = "done" => res'[r].status = 402 /\ res'[r].sent]_vars

\* The same for vouchers that have a seller and an asset.
C36_NoReplayOfWellFormed ==
  [][\A r \in Req :
       (Moves(r) /\ pc[r] \in {"idle", "await_verify", "validate"} /\ Superseded(r)
        /\ WellFormed(Vn(r))) =>
         /\ voucherStore' = voucherStore
         /\ pc'[r] \in {"await_verify", "validate", "done"}
         /\ pc'[r] = "done" => res'[r].status = 402 /\ res'[r].sent]_vars

\* ------------------------------------------------------------ transmission
\* C37: for every request that passes authorization, the response is handed
\* to the original res.end exactly once, never zero times and never twice,
\* whether the route handler completes inside next(), during the awaited
\* settle or after res.end was restored, and whether settle succeeds, fails
\* or throws.
C37_ExactlyOnce ==
  /\ eres.ends <= 1
  /\ (ecalls.next > 0 /\ epc = "returned" /\ down.pc = "ended") => eres.ends = 1

\* ------------------------------------------------------------------- value
\* C40: every voucher in the store commits the buyer to at least the route's
\* required amount: a first voucher (nonce 0) has valueAggregate >=
\* maxAmountRequired, and after n aggregations the stored valueAggregate is
\* >= maxAmountRequired + n * stepAmount.
C40_BackedByValue ==
  \A id \in DOMAIN voucherStore :
    BigInt(voucherStore[id].voucher.valueAggregate) >=
      BigInt(MaxAmountRequired) + voucherStore[id].voucher.nonce * BigInt(StepAmount)

\* C39: the player's signing flag is set only while one voucher is being
\* signed: at most one signing is in progress, and no exit of the 402 handler
\* leaves the flag set.
C39_SigningGuard ==
  /\ Len(signing) <= 1
  /\ signingInProgress => Len(signing) = 1

\* C38: a request that carries a voucher the player has just signed from the
\* hint of a deferred 402 is not answered 402.
C38_HintRecovers ==
  \A r \in Req :
    (pc[r] = "done" /\ followed /\ hdr[r] = voucherState)
      => ~(res[r].status = 402 /\ res[r].sent)

====
